---- MODULE Spec2Model ----
(***************************************************************************)
(* YPMS (src/ypms.py): the source resolver's tag resolution, the guide     *)
(* engine, the installed ledger and the manager operations install, run,   *)
(* autoremove, upgrade, add_source and remove_source, as one state         *)
(* machine; the JSON cache, _subst, the shell step, the ledger functions   *)
(* and the resolver cache in specifications of their own.                  *)
(*                                                                         *)
(* Python values are modelled as follows.  None and the empty string are   *)
(* both the empty string "" (every test the code applies to them is a      *)
(* truthiness test).  A dict is a sequence of [k, v] entries in insertion  *)
(* order, which is the order Python iterates it in and json keeps.  A      *)
(* ledger key "source:user/pkg" is the pair <<source, ref>>.  An exception *)
(* is a result whose field exc names the exception class.  The timestamp   *)
(* installed_at of a ledger record is left out.  A str is a string, read   *)
(* character by character with SubSeq, Head, Tail and Len.                 *)
(***************************************************************************)
EXTENDS Integers, Sequences, FiniteSets, TLC

VARIABLES
    installed,    \* installed.json: dict env -> dict key -> record
    sources_map,  \* YPMSManager.sources_map: dict name -> config URL
    last,         \* the last manager call: arguments, outcome, journal
    nops,         \* number of manager calls made so far
    force_used,   \* some call so far was made with force=True
    probe         \* inputs and outputs of a function applied on its own
                  \* (SpecResolve, SpecGuide, SpecSources, SpecText,
                  \* SpecSubst, SpecShell, SpecLedger), or the cache and
                  \* the calls of SpecCache and SpecResolvers

vars == <<installed, sources_map, last, nops, force_used, probe>>

\* ---- bounds --------------------------------------------------------------
\* manager calls per behaviour
MaxOps == 2
\* nesting depth of _install_execute / run before the interpreter gives up
MaxDepth == 6
\* longest package.release.list drawn for resolve_release_tag
MaxListLen == 1

\* ---- Python dict, as a sequence of entries -------------------------------
RECURSIVE DictFind(_, _, _)
DictFind(d, k, i) ==
    IF i > Len(d) THEN 0
    ELSE IF d[i].k = k THEN i
    ELSE DictFind(d, k, i + 1)

DictHas(d, k) == DictFind(d, k, 1) # 0

DictGet(d, k, dflt) ==
    LET i == DictFind(d, k, 1) IN IF i = 0 THEN dflt ELSE d[i].v

\* d[k] = v: an existing key keeps its position, a new one goes last
DictSet(d, k, v) ==
    LET i == DictFind(d, k, 1) IN
    IF i = 0 THEN Append(d, [k |-> k, v |-> v])
    ELSE [d EXCEPT ![i] = [k |-> k, v |-> v]]

DictPop(d, k) ==
    LET i == DictFind(d, k, 1) IN
    IF i = 0 THEN d
    ELSE SubSeq(d, 1, i - 1) \o SubSeq(d, i + 1, Len(d))

DictKeys(d) == {d[i].k : i \in 1..Len(d)}

\* ---- text -----------------------------------------------------------------
\* A str is a string; its character at position i is SubSeq(s, i, i).
CharAt(s, i) == SubSeq(s, i, i)

\* position of the first ch in s from position i on, 0 when there is none
RECURSIVE FindFrom(_, _, _)
FindFrom(s, ch, i) ==
    IF i > Len(s) THEN 0
    ELSE IF CharAt(s, i) = ch THEN i
    ELSE FindFrom(s, ch, i + 1)

\* position of the first ch in s, 0 when s has none
Find(s, ch) == FindFrom(s, ch, 1)

\* ch in s
Contains(s, ch) == Find(s, ch) > 0

\* the two parts of s.split(ch, 1), for s that contains ch
Before(s, ch) == SubSeq(s, 1, Find(s, ch) - 1)
After(s, ch) == SubSeq(s, Find(s, ch) + 1, Len(s))

Whitespace == {" ", "\t", "\n", "\r"}

\* s.strip()
RECURSIVE strip(_)
strip(s) ==
    IF s = "" THEN ""
    ELSE IF CharAt(s, 1) \in Whitespace THEN strip(SubSeq(s, 2, Len(s)))
    ELSE IF CharAt(s, Len(s)) \in Whitespace THEN strip(SubSeq(s, 1, Len(s) - 1))
    ELSE s

UpperCase == "ABCDEFGHIJKLMNOPQRSTUVWXYZ"
LowerCase == "abcdefghijklmnopqrstuvwxyz"

\* s.lower()
RECURSIVE lower(_)
lower(s) ==
    IF s = "" THEN ""
    ELSE (IF Contains(UpperCase, Head(s))
          THEN CharAt(LowerCase, Find(UpperCase, Head(s)))
          ELSE Head(s)) \o lower(Tail(s))

\* the characters of the names in use, by ascending code point
CodePoints == " *-./0123456789:@ABCDEFGHIJKLMNOPQRSTUVWXYZ_abcdefghijklmnopqrstuvwxyz"

\* a < b on str
RECURSIVE StrLess(_, _)
StrLess(a, b) ==
    IF b = "" THEN FALSE
    ELSE IF a = "" THEN TRUE
    ELSE IF Head(a) = Head(b) THEN StrLess(Tail(a), Tail(b))
    ELSE Find(CodePoints, Head(a)) < Find(CodePoints, Head(b))

\* ---- remote metadata -----------------------------------------------------
\* What the repositories serve.  A repository is identified by the config URL
\* a source name is mapped to; it serves package info documents by package
\* ref, each holding its release info documents by release id.

\* a dependency entry, object form {source, package, version}
Dep(s, p, v) == [source |-> s, package |-> p, version |-> v]

\* guide steps; `when` is a dict that may hold "os" and "arch" lists
\* a command of a shell step: a str, or a list of argument strs
StrItem(text) == [args |-> FALSE, words |-> <<text>>]
ArgItem(words) == [args |-> TRUE, words |-> words]
\* content {cmd, check, shell}: cmd is a str (list FALSE, items holds it) or
\* a list of commands; shell is "absent" when the key is not in the dict
ShellContent(list, items, check, shell) ==
    [cmd |-> [list |-> list, items |-> items], check |-> check, shell |-> shell]
Shell(cmd) ==
    [type |-> "shell", content |-> ShellContent(FALSE, <<StrItem(cmd)>>, TRUE, "absent"),
     when |-> <<>>]
InstallPkg(deps) == [type |-> "install-package", content |-> deps, when |-> <<>>]
UninstallPkg(deps) == [type |-> "uninstall-package", content |-> deps, when |-> <<>>]
AddRepo(entries) == [type |-> "add-repo", content |-> entries, when |-> <<>>]
RemoveRepo(names) == [type |-> "remove-repo", content |-> names, when |-> <<>>]
NoneStep == [type |-> "none", content |-> <<>>, when |-> <<>>]
\* a step of a type the engine does not know
OtherStep == [type |-> "archive", content |-> <<>>, when |-> <<>>]
\* the step with a when of the given os and arch lists
OnlyOn(step, os, arch) ==
    [step EXCEPT !.when = <<[k |-> "os", v |-> os], [k |-> "arch", v |-> arch]>>]
OnlyOs(step, os) == [step EXCEPT !.when = <<[k |-> "os", v |-> os]>>]
OnlyArch(step, arch) == [step EXCEPT !.when = <<[k |-> "arch", v |-> arch]>>]

\* the exit status of a shell command on the host
ExitCode(cmd) == IF cmd = "false" THEN 1 ELSE 0

Guides3 ==
    ("install" :> <<Shell("true")>>) @@ ("uninstall" :> <<Shell("true")>>)
        @@ ("update" :> <<Shell("true")>>)
Guides2 == ("install" :> <<Shell("true")>>) @@ ("uninstall" :> <<Shell("true")>>)
Guides1 == ("install" :> <<Shell("true")>>)

Release(deps, guides) == [depends |-> deps, guides |-> guides]

PkgInfo(dflt, alias, lst, rel) ==
    [default |-> dflt, alias |-> alias, list |-> lst, rel |-> rel]

NoAlias == <<>>
NoDeps == <<>>

UrlMain == "https://ypsh-dgc.github.io/YPMS/yopr/ypms.json"
UrlAlt == "https://alt.example/ypms.json"

\* repository of the seeded source yopr
RepoMain ==
    ("a/lib" :> PkgInfo("v1", <<[k |-> "latest", v |-> "v2"]>>, <<"v2", "v1">>,
        ("v1" :> Release(NoDeps, Guides3))
        @@ ("v2" :> Release(<<Dep("", "a/base", "")>>, Guides3))))
    @@ ("a/app" :> PkgInfo("", <<[k |-> "latest", v |-> "v1"]>>, <<"v1">>,
        ("v1" :> Release(<<Dep("", "a/lib", "v1")>>, Guides2))))
    @@ ("a/suite" :> PkgInfo("v1", NoAlias, <<"v1">>,
        ("v1" :> Release(<<Dep("", "a/app", ""), Dep("", "a/lib", "")>>, Guides2))))
    @@ ("a/base" :> PkgInfo("v1", NoAlias, <<"v1">>,
        ("v1" :> Release(NoDeps, Guides1))))
    @@ ("c/chain" :> PkgInfo("",
        <<[k |-> "latest", v |-> "next"], [k |-> "next", v |-> "stable"],
          [k |-> "stable", v |-> "v1"]>>, <<"v1">>,
        ("v1" :> Release(NoDeps, Guides2))
        @@ ("stable" :> Release(NoDeps, Guides2))
        @@ ("next" :> Release(NoDeps, Guides2))))
    @@ ("k/kit" :> PkgInfo("v1", NoAlias, <<"v1">>,
        ("v1" :> Release(NoDeps,
            ("install" :> <<Shell("true")>>)
            @@ ("uninstall" :> <<InstallPkg(<<Dep("", "k/cleaner", "")>>),
                                 Shell("true")>>)))))
    @@ ("k/cleaner" :> PkgInfo("v1", NoAlias, <<"v1">>,
        ("v1" :> Release(<<Dep("", "k/kit", "")>>, Guides2))))
    @@ ("f/bad" :> PkgInfo("v1", NoAlias, <<"v1">>,
        ("v1" :> Release(NoDeps,
            ("install" :> <<InstallPkg(<<Dep("", "a/base", "")>>), Shell("false")>>)
            @@ ("uninstall" :> <<Shell("true")>>)))))
    @@ ("r/repo" :> PkgInfo("v1", NoAlias, <<"v1">>,
        ("v1" :> Release(NoDeps,
            ("install" :> <<AddRepo(<<[name |-> "alt", url |-> UrlAlt]>>)>>)
            @@ ("uninstall" :> <<Shell("true")>>)))))
    @@ ("r/ext" :> PkgInfo("v1", NoAlias, <<"v1">>,
        ("v1" :> Release(<<Dep("", "r/repo", ""), Dep("alt", "a/lib", "")>>, Guides2))))
    @@ ("p/star" :> PkgInfo("v1", NoAlias, <<"v1">>,
        ("v1" :> Release(<<Dep("", "a/base", "*")>>, Guides2))))
    @@ ("p/late" :> PkgInfo("v1", NoAlias, <<"v1">>,
        ("v1" :> Release(<<Dep("", "a/base", "latest")>>, Guides2))))
    @@ ("p/caps" :> PkgInfo("v1", NoAlias, <<"v1">>,
        ("v1" :> Release(<<Dep("", "a/base", "LATEST")>>, Guides2))))
    @@ ("p/pin" :> PkgInfo("v1", NoAlias, <<"v1">>,
        ("v1" :> Release(<<Dep("", "a/base", "v1")>>, Guides2))))
    @@ ("p/pack" :> PkgInfo("v1", NoAlias, <<"v1">>,
        ("v1" :> Release(NoDeps,
            ("install" :> <<InstallPkg(<<Dep("", "a/base", ""), Dep("", "p/star", ""),
                                         Dep("", "p/late", ""), Dep("", "p/caps", ""),
                                         Dep("", "p/pin", "")>>)>>)
            @@ ("uninstall" :> <<Shell("true")>>)))))
    @@ ("w/win" :> PkgInfo("v1", NoAlias, <<"v1">>,
        ("v1" :> Release(NoDeps,
            ("install" :> <<OnlyOs(Shell("true"), <<"windows">>)>>)
            @@ ("uninstall" :> <<Shell("true")>>)))))
    @@ ("u/fail" :> PkgInfo("v1", NoAlias, <<"v1">>,
        ("v1" :> Release(NoDeps,
            ("install" :> <<Shell("true")>>) @@ ("uninstall" :> <<Shell("false")>>)
            @@ ("update" :> <<Shell("false")>>)))))
    @@ ("u/set" :> PkgInfo("v1", NoAlias, <<"v1">>,
        ("v1" :> Release(<<Dep("", "u/fail", ""), Dep("", "a/lib", "")>>, Guides2))))
    @@ ("y/ping" :> PkgInfo("v1", NoAlias, <<"v1">>,
        ("v1" :> Release(NoDeps,
            ("install" :> <<InstallPkg(<<Dep("", "y/pong", "")>>)>>)
            @@ ("uninstall" :> <<Shell("true")>>)))))
    @@ ("y/pong" :> PkgInfo("v1", NoAlias, <<"v1">>,
        ("v1" :> Release(NoDeps,
            ("install" :> <<InstallPkg(<<Dep("", "y/ping", "")>>)>>)
            @@ ("uninstall" :> <<Shell("true")>>)))))
    @@ ("d/a" :> PkgInfo("v1", NoAlias, <<"v1">>,
        ("v1" :> Release(<<Dep("", "d/b", "")>>, Guides2))))
    @@ ("d/b" :> PkgInfo("v1", NoAlias, <<"v1">>,
        ("v1" :> Release(<<Dep("", "d/a", "")>>, Guides2))))
    @@ ("w/gone" :> PkgInfo("v1", NoAlias, <<"v1">>,
        ("v1" :> Release(NoDeps,
            ("install" :> <<Shell("true")>>)
            @@ ("uninstall" :> <<OnlyOs(Shell("true"), <<"windows">>)>>)))))
    @@ ("f/stuck" :> PkgInfo("v1", NoAlias, <<"v1">>,
        ("v1" :> Release(NoDeps,
            ("install" :> <<Shell("true")>>)
            @@ ("uninstall" :> <<UninstallPkg(<<Dep("", "a/lib", "")>>),
                                 Shell("false")>>)))))

\* repository of a second source
RepoAlt ==
    ("a/lib" :> PkgInfo("v1", NoAlias, <<"v1">>,
        ("v1" :> Release(NoDeps, Guides2))))
    @@ ("x/app" :> PkgInfo("v1", NoAlias, <<"v1">>,
        ("v1" :> Release(<<Dep("", "a/lib", "")>>, Guides2))))

Repo(url) == IF url = UrlMain THEN RepoMain ELSE IF url = UrlAlt THEN RepoAlt ELSE <<>>

DEFAULT_SOURCES == <<[k |-> "yopr", v |-> UrlMain]>>

\* ---- results of calls ----------------------------------------------------
\* m is the manager's state during a call: [db, sources_map, log].
Ok(m, val) == [m |-> m, exc |-> "", msg |-> "", val |-> val]
Raise(m, cls, msg) == [m |-> m, exc |-> cls, msg |-> msg, val |-> ""]
Log(m, ev) == [m EXCEPT !.log = Append(@, ev)]

\* an exception in r propagates; otherwise the code that follows runs
Bind(r, K(_)) == IF r.exc # "" THEN r ELSE K(r)

\* try/except: outcomes that Caught accepts go on, the others propagate
BindIf(r, Caught(_), K(_)) == IF Caught(r) THEN K(r) ELSE r

\* a local name: v is computed once and K reads it
With(v, K(_)) == K(v)

\* ---- YPMSSource ----------------------------------------------------------
\* resolve_release_tag with the alias map applied transitively
resolve_release_tag_chained(pkg_info, tag) ==
    LET t0 == IF tag # "" THEN tag
              ELSE IF pkg_info.default # "" THEN pkg_info.default
              ELSE IF DictGet(pkg_info.alias, "latest", "") # ""
                   THEN DictGet(pkg_info.alias, "latest", "")
              ELSE IF Len(pkg_info.list) > 0 THEN pkg_info.list[1] ELSE ""
        r1 == DictGet(pkg_info.alias, t0, t0)
    IN  DictGet(pkg_info.alias, r1, r1)

\* resolve_release_tag that looks the requested tag up in the alias map
\* instead of the tag the defaults gave
resolve_release_tag_orig(pkg_info, tag) ==
    LET t0 == IF tag # "" THEN tag
              ELSE IF pkg_info.default # "" THEN pkg_info.default
              ELSE IF DictGet(pkg_info.alias, "latest", "") # ""
                   THEN DictGet(pkg_info.alias, "latest", "")
              ELSE IF Len(pkg_info.list) > 0 THEN pkg_info.list[1] ELSE ""
    IN  DictGet(pkg_info.alias, tag, t0)

resolve_release_tag(pkg_info, tag) ==
    LET t1 == IF tag # "" THEN tag ELSE pkg_info.default
        t2 == IF tag # "" \/ t1 # "" THEN t1
              ELSE DictGet(pkg_info.alias, "latest", "")
        t3 == IF tag # "" \/ t2 # "" THEN t2
              ELSE IF Len(pkg_info.list) > 0 THEN pkg_info.list[1] ELSE t2
    IN  DictGet(pkg_info.alias, t3, t3)

\* GET of the package document: HTTP 404 is wrapped in YPMSError
fetch_package_info(url, ref) ==
    With(Repo(url), LAMBDA served :
        IF ref \in DOMAIN served
        THEN [exc |-> "", msg |-> "", info |-> served[ref]]
        ELSE [exc |-> "YPMSError", msg |-> "Failed to GET", info |-> <<>>])

\* GET of package.release.url with {RELEASE_ID} replaced
fetch_release_info(pkg_info, release_id) ==
    IF release_id \in DOMAIN pkg_info.rel
    THEN [exc |-> "", msg |-> "", rel |-> pkg_info.rel[release_id]]
    ELSE [exc |-> "YPMSError", msg |-> "Failed to GET", rel |-> <<>>]

\* ---- journal of a call ---------------------------------------------------
\* What a call did, in order: guide steps dispatched, ledger records written
\* and deleted, dependents and blockers printed, prompts declined.
Ev(t, env, key, guide, ver, idx) ==
    [t |-> t, env |-> env, key |-> key, guide |-> guide, ver |-> ver, idx |-> idx,
     explicit |-> FALSE, fresh |-> FALSE, done |-> FALSE, who |-> {}, cls |-> ""]

\* ---- source access -------------------------------------------------------
\* sorted(names)[0]
SortedFirst(names) == CHOOSE n \in names : \A o \in names \ {n} : StrLess(n, o)

\* a selection that takes the first configured name when none is given
_get_source_first(smap, source_name) ==
    IF source_name = "" /\ Len(smap) = 0
    THEN [exc |-> "YPMSError", msg |-> "No sources configured", name |-> "", url |-> ""]
    ELSE With(IF source_name # "" THEN source_name
              ELSE IF DictHas(smap, "yopr") THEN "yopr"
              ELSE smap[1].k,
              LAMBDA name :
        IF DictGet(smap, name, "") = ""
        THEN [exc |-> "YPMSError", msg |-> "Unknown source", name |-> name, url |-> ""]
        ELSE [exc |-> "", msg |-> "", name |-> name, url |-> DictGet(smap, name, "")])

\* The resolver cached in _source_cache is the one built from the URL that
\* sources_map holds for the name (add_source and remove_source evict it), so
\* a resolver is the pair of its name and that URL.
_get_source(smap, source_name) ==
    IF source_name = "" /\ ~DictHas(smap, "yopr") /\ Len(smap) = 0
    THEN [exc |-> "YPMSError", msg |-> "No sources configured", name |-> "", url |-> ""]
    ELSE With(IF source_name # "" THEN source_name
              ELSE IF DictHas(smap, "yopr") THEN "yopr"
              ELSE SortedFirst(DictKeys(smap)),
              LAMBDA name :
        IF DictGet(smap, name, "") = ""
        THEN [exc |-> "YPMSError", msg |-> "Unknown source", name |-> name, url |-> ""]
        ELSE [exc |-> "", msg |-> "", name |-> name, url |-> DictGet(smap, name, "")])

\* json.dump of the map into sources.json
save_sources(m) == [m EXCEPT !.file = m.sources_map]

\* an addition that does not write the file
add_source_unsaved(m, name, url) == [m EXCEPT !.sources_map = DictSet(@, name, url)]

\* an eviction that leaves _source_cache as it is
Evict_none(m, name) == m

\* _source_cache.pop(name, None)
Evict(m, name) == [m EXCEPT !.source_cache = DictPop(@, name)]

add_source(m, name, url) ==
    Evict(save_sources([m EXCEPT !.sources_map = DictSet(@, name, url)]), name)

\* a removal that leaves the map as it is
remove_source_kept(m, name) == m

remove_source(m, name) ==
    Evict(IF DictHas(m.sources_map, name)
          THEN save_sources([m EXCEPT !.sources_map = DictPop(@, name)])
          ELSE m,
          name)

\* a split that tests the halves as they are written
_split_pkg_ref_raw(ref) ==
    IF ~Contains(ref, "/")
    THEN [exc |-> "YPMSError", msg |-> "Package ref must be 'USER/PACKAGE'",
          user |-> "", pkg |-> ""]
    ELSE IF Before(ref, "/") = "" \/ After(ref, "/") = ""
    THEN [exc |-> "YPMSError", msg |-> "Invalid package ref", user |-> "", pkg |-> ""]
    ELSE [exc |-> "", msg |-> "", user |-> strip(Before(ref, "/")),
          pkg |-> strip(After(ref, "/"))]

\* the test of the stripped halves
SplitHalves(user, pkg) ==
    IF user = "" \/ pkg = ""
    THEN [exc |-> "YPMSError", msg |-> "Invalid package ref", user |-> "", pkg |-> ""]
    ELSE [exc |-> "", msg |-> "", user |-> user, pkg |-> pkg]

\* the outcome of _split_pkg_ref: the two halves, or the error raised
_split_pkg_ref(ref) ==
    IF ~Contains(ref, "/")
    THEN [exc |-> "YPMSError", msg |-> "Package ref must be 'USER/PACKAGE'",
          user |-> "", pkg |-> ""]
    ELSE SplitHalves(strip(Before(ref, "/")), strip(After(ref, "/")))

\* the tail of the string branch of _parse_dep: PACKAGE[@VERSION]
ParsedDep(src_name, body) ==
    IF Contains(body, "@")
    THEN [exc |-> "", source |-> src_name, package |-> strip(Before(body, "@")),
          version |-> strip(After(body, "@"))]
    ELSE [exc |-> "", source |-> src_name, package |-> strip(body), version |-> ""]

\* a parse that takes whatever precedes the first ':' for a source
_parse_dep_colon(dep) ==
    IF "text" \in DOMAIN dep
    THEN IF Contains(strip(dep.text), ":")
         THEN ParsedDep(strip(Before(strip(dep.text), ":")), After(strip(dep.text), ":"))
         ELSE ParsedDep("", strip(dep.text))
    ELSE IF dep.package = ""
    THEN [exc |-> "YPMSError", source |-> "", package |-> "", version |-> ""]
    ELSE [exc |-> "", source |-> strip(dep.source), package |-> strip(dep.package),
          version |-> strip(dep.version)]

\* A dependency entry in string form is [text |-> str]; one in object form
\* is a record of source, package and version, "" for an absent field.  None
\* and "" are the same value here: every user of the triple tests the source
\* and the version for truth only.
_parse_dep(dep) ==
    IF "text" \in DOMAIN dep
    THEN IF /\ Contains(strip(dep.text), ":")
            /\ Contains(After(strip(dep.text), ":"), "/")
         THEN ParsedDep(strip(Before(strip(dep.text), ":")), After(strip(dep.text), ":"))
         ELSE ParsedDep("", strip(dep.text))
    ELSE IF dep.package = ""
    THEN [exc |-> "YPMSError", source |-> "", package |-> "", version |-> ""]
    ELSE [exc |-> "", source |-> strip(dep.source), package |-> strip(dep.package),
          version |-> strip(dep.version)]

\* ---- ledger --------------------------------------------------------------
EnvPkgs(db, env) == DictGet(db, env, <<>>)

_db_key(source, package_ref) == <<IF source = "" THEN "yopr" ELSE source, package_ref>>

Record(source, package_ref, version, explicit) ==
    [source |-> source, package |-> package_ref, version |-> version,
     explicit |-> explicit]

\* a ledger that files every install as a new entry
_db_mark_installed_append(db, env, source, package_ref, version, explicit) ==
    DictSet(db, env,
        Append(EnvPkgs(db, env),
            [k |-> _db_key(source, package_ref),
             v |-> Record(source, package_ref, version, explicit)]))

_db_mark_installed(db, env, source, package_ref, version, explicit) ==
    DictSet(db, env,
        DictSet(EnvPkgs(db, env), _db_key(source, package_ref),
            Record(source, package_ref, version, explicit)))

\* a ledger that never forgets
_db_mark_uninstalled_keep(db, env, source, package_ref) == db

_db_mark_uninstalled(db, env, source, package_ref) ==
    IF DictHas(EnvPkgs(db, env), _db_key(source, package_ref))
    THEN DictSet(db, env, DictPop(EnvPkgs(db, env), _db_key(source, package_ref)))
    ELSE db

\* a test that looks for the package under any source
is_installed_any(db, env, source, package_ref) ==
    \E i \in 1..Len(EnvPkgs(db, env)) : EnvPkgs(db, env)[i].k[2] = package_ref

is_installed(db, env, source, package_ref) ==
    DictHas(EnvPkgs(db, env), _db_key(source, package_ref))

\* list_installed: one env when given, else every env of the ledger
list_installed(db, env) ==
    IF env # "" THEN <<[k |-> env, v |-> EnvPkgs(db, env)]>> ELSE db

\* ---- loading a release --------------------------------------------------
\* YPMSPackage(src, user, pkg).pkg_info followed by _get_release_info: the
\* resolver, the package document, the resolved tag and the release document
LoadFailed(cls, msg) ==
    [exc |-> cls, msg |-> msg, name |-> "", url |-> "", info |-> <<>>,
     resolved |-> "", rel |-> <<>>]

_get_release_info(s, pkg_info, version_tag) ==
    With(resolve_release_tag(pkg_info, version_tag), LAMBDA resolved :
    With(fetch_release_info(pkg_info, resolved), LAMBDA ri :
        IF ri.exc # "" THEN LoadFailed(ri.exc, ri.msg)
        ELSE [exc |-> "", msg |-> "", name |-> s.name, url |-> s.url,
              info |-> pkg_info, resolved |-> resolved, rel |-> ri.rel]))

LoadRelease(smap, source_name, package_ref, version) ==
    With(_get_source(smap, source_name), LAMBDA s :
        IF s.exc # "" THEN LoadFailed(s.exc, s.msg)
        ELSE With(fetch_package_info(s.url, package_ref), LAMBDA pi :
            IF pi.exc # "" THEN LoadFailed(pi.exc, pi.msg)
            ELSE _get_release_info(s, pi.info, version)))

\* the release document of a ledger record, fetched at the recorded version
LoadRecorded(smap, meta) ==
    With(_get_source(smap, meta.source), LAMBDA s :
        IF s.exc # "" THEN LoadFailed(s.exc, s.msg)
        ELSE With(fetch_package_info(s.url, meta.package), LAMBDA pi :
            IF pi.exc # "" THEN LoadFailed(pi.exc, pi.msg)
            ELSE With(fetch_release_info(pi.info, meta.version), LAMBDA ri :
                IF ri.exc # "" THEN LoadFailed(ri.exc, ri.msg)
                ELSE [exc |-> "", msg |-> "", name |-> s.name, url |-> s.url,
                      info |-> pi.info, resolved |-> meta.version, rel |-> ri.rel])))

\* ---- dependents ----------------------------------------------------------
\* the source a dependency entry without one is taken from, when dependents
\* are looked up
DependentDepSource(ds, dependent_source, target_source) ==
    IF ds # "" THEN ds ELSE target_source

\* the alias-resolved version a dependent asks for ("" when it names none)
RequiredVersion(smap, ds, dr, dv) ==
    IF dv = "" THEN [exc |-> "", msg |-> "", ver |-> ""]
    ELSE IF _split_pkg_ref(dr).exc # ""
    THEN [exc |-> "YPMSError", msg |-> "Invalid package ref", ver |-> ""]
    ELSE With(_get_source(smap, ds), LAMBDA s :
        IF s.exc # "" THEN [exc |-> s.exc, msg |-> s.msg, ver |-> ""]
        ELSE With(fetch_package_info(s.url, dr), LAMBDA pi :
            IF pi.exc # "" THEN [exc |-> pi.exc, msg |-> pi.msg, ver |-> ""]
            ELSE [exc |-> "", msg |-> "", ver |-> resolve_release_tag(pi.info, dv)]))

\* an entry of the result is put before those of the entries that follow
Dependents(first, rest) ==
    IF first.exc # "" THEN first
    ELSE IF rest.exc # "" THEN rest
    ELSE [exc |-> "", msg |-> "", res |-> first.res \o rest.res]

RECURSIVE DependsLoop(_, _, _, _, _, _)
DependsLoop(smap, meta, deps, j, target_source, target_pref) ==
    IF j > Len(deps) THEN [exc |-> "", msg |-> "", res |-> <<>>]
    ELSE LET dp == _parse_dep(deps[j])
             ds == DependentDepSource(dp.source, meta.source, target_source)
         IN  IF ds = target_source /\ dp.package = target_pref
             THEN Dependents(
                    With(RequiredVersion(smap, ds, dp.package, dp.version), LAMBDA rv :
                        [exc |-> rv.exc, msg |-> rv.msg,
                         res |-> <<[dependent_source |-> meta.source,
                                    dependent_package |-> meta.package,
                                    dependent_version |-> meta.version,
                                    required_version |-> rv.ver]>>]),
                    DependsLoop(smap, meta, deps, j + 1, target_source, target_pref))
             ELSE DependsLoop(smap, meta, deps, j + 1, target_source, target_pref)

RECURSIVE FindDependentsLoop(_, _, _, _, _)
FindDependentsLoop(smap, pkgs, i, target_source, target_pref) ==
    IF i > Len(pkgs) THEN [exc |-> "", msg |-> "", res |-> <<>>]
    ELSE IF _split_pkg_ref(pkgs[i].v.package).exc # ""
    THEN [exc |-> "YPMSError", msg |-> "Invalid package ref", res |-> <<>>]
    ELSE With(LoadRecorded(smap, pkgs[i].v), LAMBDA L :
        IF L.exc # "" THEN [exc |-> L.exc, msg |-> L.msg, res |-> <<>>]
        ELSE Dependents(
                DependsLoop(smap, pkgs[i].v, L.rel.depends, 1, target_source,
                            target_pref),
                FindDependentsLoop(smap, pkgs, i + 1, target_source, target_pref)))

_find_dependents(m, env, target_source, target_pref) ==
    FindDependentsLoop(m.sources_map, EnvPkgs(m.db, env), 1, target_source, target_pref)

\* a check that exempts no tag but the empty one
Blocks_exact(req, new_version) == req # "" /\ req # new_version

\* a dependent blocks when it asks for a version other than the new one
Blocks(req, new_version) ==
    ~(req = "" \/ lower(req) = "latest" \/ req = "*") /\ req # new_version

_check_update_compat(m, env, target_source, target_pref, new_version) ==
    With(_find_dependents(m, env, target_source, target_pref), LAMBDA fd :
        IF fd.exc # "" THEN fd
        ELSE [exc |-> "", msg |-> "",
              res |-> SelectSeq(fd.res,
                          LAMBDA x : Blocks(x.required_version, new_version))])

\* keys of the dependents a result of _find_dependents lists
DependentKeys(res) ==
    {<<res[i].dependent_source, res[i].dependent_package>> : i \in 1..Len(res)}

\* ---- guide engine --------------------------------------------------------
\* the host: sys.platform and platform.machine()
sys_platform == "linux"
platform_machine == "x86_64"

StartsWith(s, prefix) == Len(s) >= Len(prefix) /\ SubSeq(s, 1, Len(prefix)) = prefix

_norm_os ==
    IF StartsWith(sys_platform, "win") THEN "windows"
    ELSE IF StartsWith(sys_platform, "darwin") THEN "darwin"
    ELSE "linux"

\* the canonical tag of a lower-case architecture name
NormArch(a) ==
    IF a \in {"x86_64", "amd64", "x64"} THEN "x86_64"
    ELSE IF a \in {"arm64", "aarch64"} THEN "arm64"
    ELSE a

_norm_arch ==
    IF NormArch(lower(platform_machine)) = "" THEN "unknown"
    ELSE NormArch(lower(platform_machine))

\* when is a dict that may hold the lists "os" and "arch"; an absent when is
\* the empty dict
_when_matches(when) ==
    IF Len(when) = 0 THEN TRUE
    ELSE /\ (DictHas(when, "os") =>
                _norm_os \in {lower(DictGet(when, "os", <<>>)[i]) :
                                 i \in 1..Len(DictGet(when, "os", <<>>))})
         /\ (DictHas(when, "arch") =>
                _norm_arch \in {NormArch(lower(DictGet(when, "arch", <<>>)[i])) :
                                   i \in 1..Len(DictGet(when, "arch", <<>>))})

\* the directory envs/<env>, named by its env id
EnvDir(env) == env

\* first line of standard input, "" at end of input
ReadLine(stdin) == IF Len(stdin) = 0 THEN "" ELSE Head(stdin)
RestLines(stdin) == IF Len(stdin) = 0 THEN stdin ELSE Tail(stdin)

\* the dependencies the release recorded for `meta` declares, each with an
\* omitted source filled by the record's own source (as the installer and
\* the planner fill it)
DeclaredDeps(smap, meta) ==
    With(LoadRecorded(smap, meta), LAMBDA L :
        IF L.exc # "" THEN {}
        ELSE {<<IF L.rel.depends[j].source # "" THEN L.rel.depends[j].source
                ELSE meta.source,
                L.rel.depends[j].package>> : j \in 1..Len(L.rel.depends)})

\* keys of the records of env that declare a dependency on key
DeclaringRecords(smap, db, env, key) ==
    {EnvPkgs(db, env)[i].k : i \in
        {n \in 1..Len(EnvPkgs(db, env)) :
            /\ EnvPkgs(db, env)[n].k # key
            /\ key \in DeclaredDeps(smap, EnvPkgs(db, env)[n].v)}}

RECURSIVE _install_execute(_, _, _, _, _, _, _, _)
RECURSIVE run(_, _, _, _, _, _, _, _, _, _)
RECURSIVE _execute_guide_steps(_, _, _, _, _, _, _, _, _)
RECURSIVE InstallItems(_, _, _, _, _, _, _)
RECURSIVE UninstallItems(_, _, _, _, _, _, _, _)
RECURSIVE InstallDeps(_, _, _, _, _, _)
RECURSIVE AddRepoItems(_, _, _)
RECURSIVE RemoveRepoItems(_, _, _)
RECURSIVE ShellLoop(_, _, _, _, _, _, _, _)

\* str.replace(old, new), old not empty
RECURSIVE replace(_, _, _)
replace(s, old, new) ==
    IF Len(s) < Len(old) THEN s
    ELSE IF StartsWith(s, old)
    THEN new \o replace(SubSeq(s, Len(old) + 1, Len(s)), old, new)
    ELSE CharAt(s, 1) \o replace(Tail(s), old, new)

_subst(s, env_dir, ctx) ==
    replace(replace(replace(replace(replace(replace(s,
        "{YPMS_ENV_DIR}", env_dir),
        "{OS}", _norm_os),
        "{ARCH}", _norm_arch),
        "{PACKAGE_REF}", ctx.PACKAGE_REF),
        "{SOURCE_NAME}", ctx.SOURCE_NAME),
        "{RELEASE_ID}", ctx.RELEASE_ID)

\* subprocess.run(argv, shell=shell_flag): the process is launched
Launch(m, argv, shell_flag) ==
    [m EXCEPT !.procs = Append(@, [argv |-> argv, shell |-> shell_flag])]

\* a flag that defaults to True for every command
ShellFlag_always(item, use_shell_default) ==
    IF use_shell_default = "absent" THEN TRUE ELSE use_shell_default = "true"

\* shell_flag of a command: False for an argument list and True for a str
\* unless the content has the key shell
ShellFlag(item, use_shell_default) ==
    IF use_shell_default = "absent" THEN ~item.args ELSE use_shell_default = "true"

\* the loop over cmds of _exec_step_shell from command i on
ShellLoop(m, cmds, i, use_shell_default, check, last_code, ctx, env) ==
    IF i > Len(cmds) THEN Ok(m, IF last_code = 0 THEN "" ELSE ToString(last_code))
    ELSE With([j \in 1..Len(cmds[i].words) |-> _subst(cmds[i].words[j], EnvDir(env), ctx)],
              LAMBDA argv :
         With(ShellFlag(cmds[i], use_shell_default), LAMBDA shell_flag :
         IF ExitCode(argv[1]) # 0 /\ check
         THEN Raise(Launch(m, argv, shell_flag), "CalledProcessError", "non-zero exit status")
         ELSE ShellLoop(Launch(m, argv, shell_flag), cmds, i + 1, use_shell_default, check,
                        ExitCode(argv[1]), ctx, env)))

\* _exec_step_shell for content {cmd, check, shell}
_exec_step_shell(m, step, ctx, env) ==
    ShellLoop(m, step.content.cmd.items, 1, step.content.shell, step.content.check, 0,
              ctx, env)

\* the source an entry of an install-package or uninstall-package step names
StepSource(src_name, ctx) == IF src_name # "" THEN src_name ELSE ctx.SOURCE_NAME

InstallItems(m, items, i, env_pkgs, ctx, env, d) ==
    IF i > Len(items) THEN Ok(m, "")
    ELSE LET it == _parse_dep(items[i])
             key == _db_key(StepSource(it.source, ctx), it.package)
         IN  IF DictHas(env_pkgs, key)
             THEN InstallItems(m, items, i + 1, env_pkgs, ctx, env, d)
             ELSE Bind(_install_execute(m, it.package, env, it.version,
                                        StepSource(it.source, ctx), FALSE, FALSE, d - 1),
                       LAMBDA r : InstallItems(r.m, items, i + 1, env_pkgs, ctx, env, d))

\* an install-package step that ignores a YPMSError of the install it started
_exec_step_install_package_quiet(m, step, ctx, env, d) ==
    With(InstallItems(m, step.content, 1, EnvPkgs(m.db, env), ctx, env, d),
         LAMBDA r : IF r.exc = "YPMSError" THEN Ok(r.m, "") ELSE r)

\* an install-package step that does not look into the ledger
_exec_step_install_package_blind(m, step, ctx, env, d) ==
    InstallItems(m, step.content, 1, <<>>, ctx, env, d)

_exec_step_install_package(m, step, ctx, env, d) ==
    InstallItems(m, step.content, 1, EnvPkgs(m.db, env), ctx, env, d)

UninstallItems(m, items, i, env_pkgs, ctx, env, force, d) ==
    IF i > Len(items) THEN Ok(m, "")
    ELSE LET it == _parse_dep(items[i])
             key == _db_key(StepSource(it.source, ctx), it.package)
             tsrc == IF StepSource(it.source, ctx) # "" THEN StepSource(it.source, ctx)
                     ELSE "yopr"
         IN  IF ~DictHas(env_pkgs, key)
             THEN UninstallItems(m, items, i + 1, env_pkgs, ctx, env, force, d)
             ELSE With(_find_dependents(m, env, tsrc, it.package), LAMBDA fd :
                  IF fd.exc # "" THEN Raise(m, fd.exc, fd.msg)
                  ELSE IF Len(fd.res) > 0 /\ ~force
                  THEN Raise(m, "YPMSError", "uninstall blocked")
                  ELSE BindIf(run(m, it.package, "uninstall", env, "",
                                  StepSource(it.source, ctx), FALSE, FALSE, <<>>, d - 1),
                              LAMBDA r : r.exc \in {"", "YPMSError"},
                              LAMBDA r : UninstallItems(r.m, items, i + 1, env_pkgs, ctx,
                                                        env, force, d)))

_exec_step_uninstall_package(m, step, ctx, env, force, d) ==
    UninstallItems(m, step.content, 1, EnvPkgs(m.db, env), ctx, env, force, d)

\* add-repo, content a list of {name, url}
AddRepoItems(m, entries, i) ==
    IF i > Len(entries) THEN Ok(m, "")
    ELSE IF ~DictHas(m.sources_map, entries[i].name)
    THEN AddRepoItems(add_source(m, entries[i].name, entries[i].url), entries, i + 1)
    ELSE AddRepoItems(m, entries, i + 1)

_exec_step_add_repo(m, step) == AddRepoItems(m, step.content, 1)

\* remove-repo, content a list of names
RemoveRepoItems(m, names, i) ==
    IF i > Len(names) THEN Ok(m, "")
    ELSE IF DictHas(m.sources_map, names[i])
    THEN RemoveRepoItems(remove_source(m, names[i]), names, i + 1)
    ELSE RemoveRepoItems(m, names, i + 1)

_exec_step_remove_repo(m, step) == RemoveRepoItems(m, step.content, 1)

\* the dispatch on step.type
ExecStep(m, step, last_result, ctx, env, force, d) ==
    IF step.type = "shell" THEN _exec_step_shell(m, step, ctx, env)
    ELSE IF step.type = "install-package"
    THEN _exec_step_install_package(m, step, ctx, env, d)
    ELSE IF step.type = "uninstall-package"
    THEN _exec_step_uninstall_package(m, step, ctx, env, force, d)
    ELSE IF step.type = "add-repo" THEN _exec_step_add_repo(m, step)
    ELSE IF step.type = "remove-repo" THEN _exec_step_remove_repo(m, step)
    ELSE IF step.type = "none" THEN Ok(m, last_result)
    ELSE Raise(m, "YPMSError", "Unsupported guide type")

KnownStepTypes ==
    {"shell", "install-package", "uninstall-package", "add-repo", "remove-repo", "none"}

\* an engine that hands every step to its handler, whatever its when
_execute_guide_steps_all(m, guide_obj, idx, ran_any, last_result, ctx, env, force, d) ==
    IF idx > Len(guide_obj)
    THEN IF ran_any THEN Ok(m, last_result)
         ELSE Raise(m, "YPMSError", "No guide step matched")
    ELSE Bind(ExecStep(IF guide_obj[idx].type \in KnownStepTypes
                       THEN Log(m, Ev("step", env, <<ctx.SOURCE_NAME, ctx.PACKAGE_REF>>,
                                      ctx.GUIDE, ctx.RELEASE_ID, idx))
                       ELSE m,
                       guide_obj[idx], last_result, ctx, env, force, d),
              LAMBDA r : _execute_guide_steps(r.m, guide_obj, idx + 1, TRUE, r.val,
                                              ctx, env, force, d))

\* the loop of _execute_guide_steps from step idx on; guide_obj is the list
\* of steps _normalize_guide_to_steps returns
_execute_guide_steps(m, guide_obj, idx, ran_any, last_result, ctx, env, force, d) ==
    IF idx > Len(guide_obj)
    THEN IF ran_any THEN Ok(m, last_result)
         ELSE Raise(m, "YPMSError", "No guide step matched")
    ELSE IF ~_when_matches(guide_obj[idx].when)
    THEN _execute_guide_steps(m, guide_obj, idx + 1, ran_any, last_result, ctx, env,
                              force, d)
    ELSE LET m1 == IF guide_obj[idx].type \in KnownStepTypes
                   THEN Log(m, Ev("step", env, <<ctx.SOURCE_NAME, ctx.PACKAGE_REF>>,
                                  ctx.GUIDE, ctx.RELEASE_ID, idx))
                   ELSE m
         IN  Bind(ExecStep(m1, guide_obj[idx], last_result, ctx, env, force, d),
                  LAMBDA r : _execute_guide_steps(r.m, guide_obj, idx + 1, TRUE, r.val,
                                                  ctx, env, force, d))

Ctx(package_ref, source_name, release_id, guide_name) ==
    [PACKAGE_REF |-> package_ref, SOURCE_NAME |-> source_name,
     RELEASE_ID |-> release_id, GUIDE |-> guide_name]

\* ---- installer -----------------------------------------------------------
\* _db_mark_installed, journalled; done tells whether the guide of the
\* invocation that writes had completed
MarkInstalled(m, env, source, package_ref, version, explicit, done) ==
    [m EXCEPT
        !.db = _db_mark_installed(@, env, source, package_ref, version, explicit),
        !.log = Append(@,
            [Ev("write", env, _db_key(source, package_ref), "install", version, 0)
                EXCEPT !.explicit = explicit,
                       !.fresh = ~is_installed(m.db, env, source, package_ref),
                       !.done = done])]

\* the record of a key in an env, <<>> when there is none
RecordOf(db, env, key) == DictGet(EnvPkgs(db, env), key, <<>>)

\* journal entry for a guide that raised: done tells whether the record of
\* the package is what it was when the invocation began (m0), cls is the
\* class of the exception
GuideFailed(m0, g, env, key, guide_name, ver) ==
    [g EXCEPT !.m = Log(@,
        [Ev("failed", env, key, guide_name, ver, 0)
            EXCEPT !.done = (RecordOf(g.m.db, env, key) = RecordOf(m0.db, env, key)),
                   !.cls = g.exc])]

\* an installer that writes the record in a finally clause
InstallCommit_finally(m0, g, env, source, package_ref, resolved, explicit) ==
    [g EXCEPT !.m = MarkInstalled(g.m, env, source, package_ref, resolved, explicit,
                                  g.exc = "")]

\* what follows the install guide: the record is written when it returned
InstallCommit(m0, g, env, source, package_ref, resolved, explicit) ==
    IF g.exc # ""
    THEN GuideFailed(m0, g, env, _db_key(source, package_ref), "install", resolved)
    ELSE Ok(MarkInstalled(g.m, env, source, package_ref, resolved, explicit, TRUE), g.val)

\* the walk over release.depends after the record is written
InstallDeps(m, deps, j, own_source, env, d) ==
    IF j > Len(deps) THEN Ok(m, EnvDir(env))
    ELSE LET dp == _parse_dep(deps[j])
             dsrc == IF dp.source # "" THEN dp.source ELSE own_source
         IN  IF is_installed(m.db, env, dsrc, dp.package)
             THEN InstallDeps(m, deps, j + 1, own_source, env, d)
             ELSE Bind(_install_execute(m, dp.package, env, dp.version, dsrc,
                                        FALSE, FALSE, d - 1),
                       LAMBDA r : InstallDeps(r.m, deps, j + 1, own_source, env, d))

_install_execute(m, package_ref, env, version, source_name, explicit, force, d) ==
    IF d <= 0 THEN Raise(m, "RecursionError", "maximum recursion depth exceeded")
    ELSE IF _split_pkg_ref(package_ref).exc # "" THEN Raise(m, "YPMSError", "Invalid package ref")
    ELSE With(LoadRelease(m.sources_map, source_name, package_ref, version), LAMBDA L :
    IF L.exc # "" THEN Raise(m, L.exc, L.msg)
    ELSE IF "install" \notin DOMAIN L.rel.guides
    THEN Raise(m, "YPMSError", "not defined")
    ELSE Bind(InstallCommit(m,
                  _execute_guide_steps(m, L.rel.guides["install"], 1, FALSE, "",
                      Ctx(package_ref, L.name, L.resolved, "install"), env, force, d),
                  env, L.name, package_ref, L.resolved, explicit),
              LAMBDA c : InstallDeps(c.m, L.rel.depends, 1, L.name, env, d)))

\* ---- run -----------------------------------------------------------------
\* index of the first record of the env whose package is package_ref, 0 if none
RECURSIVE FirstByPackage(_, _, _)
FirstByPackage(pkgs, package_ref, i) ==
    IF i > Len(pkgs) THEN 0
    ELSE IF pkgs[i].v.package = package_ref THEN i
    ELSE FirstByPackage(pkgs, package_ref, i + 1)

\* _db_mark_uninstalled, journalled; who are the records that declare a
\* dependency on the record at the moment it goes
MarkUninstalled(m, env, source, package_ref, done) ==
    IF ~is_installed(m.db, env, source, package_ref)
    THEN [m EXCEPT !.db = _db_mark_uninstalled(@, env, source, package_ref)]
    ELSE [m EXCEPT
        !.db = _db_mark_uninstalled(@, env, source, package_ref),
        !.log = Append(@,
            [Ev("delete", env, _db_key(source, package_ref), "uninstall", "", 0)
                EXCEPT !.done = done,
                       !.who = DeclaringRecords(m.sources_map, m.db, env,
                                                _db_key(source, package_ref))])]

\* what follows a guide run by run(): uninstall removes the record
RunCommit(m0, g, guide_name, env, source, package_ref, resolved) ==
    IF g.exc # ""
    THEN GuideFailed(m0, g, env, _db_key(source, package_ref), guide_name, resolved)
    ELSE IF guide_name = "uninstall"
    THEN Ok(MarkUninstalled(g.m, env, source, package_ref, TRUE), g.val)
    ELSE g

\* an uninstall that lets dependents pass
UninstallBlocked_never(dependents, force) == FALSE

\* dependents block an uninstall unless it is forced
UninstallBlocked(dependents, force) == Len(dependents) > 0 /\ ~force

\* run() once the release is loaded (L) and the dependents are known (fd)
RunGuide(m, L, fd, package_ref, guide_name, env, force, assume_yes, stdin, d) ==
    LET key == _db_key(L.name, package_ref)
        told(t) == [Ev(t, env, key, guide_name, L.resolved, 0)
                       EXCEPT !.who = DependentKeys(fd.res)]
    IN
    IF fd.exc # "" THEN Raise(m, fd.exc, fd.msg)
    ELSE IF UninstallBlocked(fd.res, force)
    THEN Raise(Log(m, told("blocked")), "YPMSError", "uninstall blocked by dependents")
    ELSE IF Len(fd.res) > 0 /\ ~assume_yes /\ ReadLine(stdin) \notin {"y", "yes"}
    THEN Ok(Log(Log(m, told("warning")),
                Ev("aborted", env, key, guide_name, L.resolved, 0)),
            EnvDir(env))
    ELSE RunCommit(m,
            _execute_guide_steps(IF Len(fd.res) > 0 THEN Log(m, told("warning")) ELSE m,
                L.rel.guides[guide_name], 1, FALSE, "",
                Ctx(package_ref, L.name, L.resolved, guide_name), env, FALSE, d),
            guide_name, env, L.name, package_ref, L.resolved)

run(m, package_ref, guide_name, env, version, source_name, force, assume_yes, stdin, d) ==
    IF d <= 0 THEN Raise(m, "RecursionError", "maximum recursion depth exceeded")
    ELSE IF _split_pkg_ref(package_ref).exc # "" THEN Raise(m, "YPMSError", "Invalid package ref")
    ELSE LET hit == FirstByPackage(EnvPkgs(m.db, env), package_ref, 1) IN
    IF guide_name = "uninstall" /\ hit = 0 THEN Ok(m, "")
    ELSE With(LoadRelease(m.sources_map,
                  IF guide_name = "uninstall" /\ source_name = ""
                  THEN EnvPkgs(m.db, env)[hit].v.source
                  ELSE source_name,
                  package_ref, version),
              LAMBDA L :
    IF L.exc # "" THEN Raise(m, L.exc, L.msg)
    ELSE IF guide_name \notin DOMAIN L.rel.guides
    THEN Raise(m, "YPMSError", "not defined")
    ELSE RunGuide(m, L,
            IF guide_name = "uninstall"
            THEN _find_dependents(m, env, L.name, package_ref)
            ELSE [exc |-> "", msg |-> "", res |-> <<>>],
            package_ref, guide_name, env, force, assume_yes, stdin, d))

\* ---- planner -------------------------------------------------------------
\* names an install guide would add with add-repo steps ([] for no guide)
_extract_add_repo_names(guides) ==
    IF "install" \notin DOMAIN guides THEN {}
    ELSE UNION {
        IF guides["install"][i].type = "add-repo"
        THEN {guides["install"][i].content[j].name :
                 j \in 1..Len(guides["install"][i].content)}
        ELSE {} : i \in 1..Len(guides["install"])}

Op(kind, source, package_ref, version, footnote) ==
    [kind |-> kind, source |-> source, package_ref |-> package_ref,
     version |-> version, footnote |-> footnote]

\* first loop over the root's dependencies: resolve each, collect providers
RECURSIVE PlanDeps(_, _, _, _, _)
PlanDeps(smap, deps, j, root_source, acc) ==
    IF j > Len(deps) THEN acc
    ELSE LET dp == _parse_dep(deps[j])
             dep_src_name == IF dp.source # "" THEN dp.source ELSE root_source
         IN
    IF _split_pkg_ref(dp.package).exc # ""
    THEN [acc EXCEPT !.exc = "YPMSError", !.msg = "Invalid package ref"]
    ELSE With(LoadRelease(smap, dep_src_name, dp.package, dp.version), LAMBDA L :
    IF L.exc # "" THEN [acc EXCEPT !.exc = L.exc, !.msg = L.msg]
    ELSE With(_extract_add_repo_names(L.rel.guides), LAMBDA add_names :
         PlanDeps(smap, deps, j + 1, root_source,
            [acc EXCEPT
                !.infos = Append(@, [source |-> dep_src_name, ref |-> dp.package,
                                     resolved |-> L.resolved]),
                !.providers =
                    [n \in DOMAIN @ \cup add_names |->
                        IF n \in add_names
                        THEN <<dep_src_name, dp.package, L.resolved>>
                        ELSE @[n]]])))

\* second loop: one operation per dependency
RECURSIVE PlanOps(_, _, _, _, _, _, _, _)
\* a loop that plans every dependency as an install
PlanOps_fresh(db, env, infos, j, known_sources, providers, ops, notes) ==
    IF j > Len(infos) THEN [ops |-> ops, notes |-> notes]
    ELSE PlanOps(db, env, infos, j + 1, known_sources, providers,
                 Append(ops, Op("install", infos[j].source, infos[j].ref,
                                infos[j].resolved, 0)),
                 notes)

PlanOps(db, env, infos, j, known_sources, providers, ops, notes) ==
    IF j > Len(infos) THEN [ops |-> ops, notes |-> notes]
    ELSE LET it == infos[j]
             kind == IF is_installed(db, env, it.source, it.ref) THEN "update"
                     ELSE "install"
             noted == it.source \notin known_sources /\ it.source \in DOMAIN providers
             foot == IF noted THEN Len(notes) + 1 ELSE 0
         IN  PlanOps(db, env, infos, j + 1, known_sources, providers,
                     Append(ops, Op(kind, it.source, it.ref, it.resolved, foot)),
                     IF noted THEN Append(notes, providers[it.source]) ELSE notes)

\* a root operation that does not look at the recorded version
RootOps_reinstall(db, env, source, package_ref, resolved) ==
    IF is_installed(db, env, source, package_ref)
    THEN <<Op("update", source, package_ref, resolved, 0)>>
    ELSE <<Op("target", source, package_ref, resolved, 0)>>

\* the root's operation: none, update or target
RootOps(db, env, source, package_ref, resolved) ==
    IF is_installed(db, env, source, package_ref)
    THEN IF DictGet(EnvPkgs(db, env), _db_key(source, package_ref), <<>>).version
              = resolved
         THEN <<>>
         ELSE <<Op("update", source, package_ref, resolved, 0)>>
    ELSE <<Op("target", source, package_ref, resolved, 0)>>

_build_operation_plan(m, package_ref, env, version, source_name) ==
    LET fail(cls, msg) == [exc |-> cls, msg |-> msg, ops |-> <<>>, notes |-> <<>>] IN
    IF _split_pkg_ref(package_ref).exc # "" THEN fail("YPMSError", "Invalid package ref")
    ELSE With(LoadRelease(m.sources_map, source_name, package_ref, version), LAMBDA L :
    IF L.exc # "" THEN fail(L.exc, L.msg)
    ELSE With(PlanDeps(m.sources_map, L.rel.depends, 1, L.name,
                  [exc |-> "", msg |-> "", infos |-> <<>>, providers |-> <<>>]),
              LAMBDA pd :
    IF pd.exc # "" THEN fail(pd.exc, pd.msg)
    ELSE With(PlanOps(m.db, env, pd.infos, 1, DictKeys(m.sources_map),
                      pd.providers, <<>>, <<>>),
              LAMBDA po :
         [exc |-> "", msg |-> "",
          ops |-> po.ops \o RootOps(m.db, env, L.name, package_ref, L.resolved),
          notes |-> po.notes])))

\* ---- install -------------------------------------------------------------
\* the loop of install() over the operations of the plan
RECURSIVE ExecOps(_, _, _, _, _, _, _, _, _)
RECURSIVE UpdateOp(_, _, _, _, _, _, _, _, _, _)

\* an update operation, ic being what _check_update_compat returned
UpdateOp(m, ic, ops, i, env, explicit, assume_yes, force, stdin, d) ==
    LET it == ops[i]
        key == _db_key(it.source, it.package_ref)
        told == [Ev(IF force THEN "warning" ELSE "incompatible", env, key, "update",
                    it.version, 0)
                    EXCEPT !.who = DependentKeys(ic.res)]
        rest == IF Len(ic.res) > 0 /\ ~assume_yes THEN RestLines(stdin) ELSE stdin
    IN
    IF ic.exc # "" THEN Raise(m, ic.exc, ic.msg)
    ELSE IF Len(ic.res) > 0 /\ ~force THEN Ok(Log(m, told), EnvDir(env))
    ELSE IF Len(ic.res) > 0 /\ ~assume_yes /\ ReadLine(stdin) \notin {"y", "yes"}
    THEN Ok(Log(Log(m, told), Ev("aborted", env, key, "update", it.version, 0)),
            EnvDir(env))
    ELSE BindIf(run(IF Len(ic.res) > 0 THEN Log(m, told) ELSE m,
                    it.package_ref, "update", env, it.version, it.source,
                    FALSE, FALSE, <<>>, d),
                LAMBDA r : r.exc = "" \/ (r.exc = "YPMSError" /\ r.msg = "not defined"),
                LAMBDA r : ExecOps(r.m, ops, i + 1, env, explicit, assume_yes, force,
                                   rest, d))

ExecOps(m, ops, i, env, explicit, assume_yes, force, stdin, d) ==
    IF i > Len(ops) THEN Ok(m, EnvDir(env))
    ELSE IF ops[i].kind \in {"install", "target"}
    THEN Bind(_install_execute(m, ops[i].package_ref, env, ops[i].version,
                               ops[i].source, ops[i].kind = "target" /\ explicit,
                               FALSE, d),
              LAMBDA r : ExecOps(r.m, ops, i + 1, env, explicit, assume_yes, force,
                                 stdin, d))
    ELSE UpdateOp(m,
            _check_update_compat(m, env, ops[i].source, ops[i].package_ref,
                                 ops[i].version),
            ops, i, env, explicit, assume_yes, force, stdin, d)

\* an install that executes the plan while it waits for the answer
install_eager(m, package_ref, env, version, source_name, explicit, assume_yes, force, stdin) ==
    With(_build_operation_plan(m, package_ref, env, version, source_name), LAMBDA plan :
    With(IF plan.exc # "" THEN Raise(m, plan.exc, plan.msg)
         ELSE IF Len(plan.ops) = 0 THEN Ok(m, EnvDir(env))
         ELSE With(ExecOps(m, plan.ops, 1, env, explicit, assume_yes, force,
                           IF assume_yes THEN stdin ELSE RestLines(stdin), MaxDepth),
                   LAMBDA e :
              IF ~assume_yes /\ ReadLine(stdin) \notin {"", "y", "yes"}
              THEN Ok(Log(e.m, Ev("aborted", env, <<"", package_ref>>, "", "", 0)), "")
              ELSE e),
         LAMBDA r : [m |-> r.m, exc |-> r.exc, msg |-> r.msg, val |-> r.val,
                     plan |-> plan.ops, notes |-> plan.notes,
                     planned |-> plan.exc = ""]))

install(m, package_ref, env, version, source_name, explicit, assume_yes, force, stdin) ==
    With(_build_operation_plan(m, package_ref, env, version, source_name), LAMBDA plan :
    With(IF plan.exc # "" THEN Raise(m, plan.exc, plan.msg)
         ELSE IF Len(plan.ops) = 0 THEN Ok(m, EnvDir(env))
         ELSE IF ~assume_yes /\ ReadLine(stdin) \notin {"", "y", "yes"}
         THEN Ok(Log(m, Ev("aborted", env, <<"", package_ref>>, "", "", 0)), "")
         ELSE ExecOps(m, plan.ops, 1, env, explicit, assume_yes, force,
                      IF assume_yes THEN stdin ELSE RestLines(stdin), MaxDepth),
         LAMBDA r : [m |-> r.m, exc |-> r.exc, msg |-> r.msg, val |-> r.val,
                     plan |-> plan.ops, notes |-> plan.notes,
                     planned |-> plan.exc = ""]))

\* ---- autoremove ----------------------------------------------------------
\* the loop over the non-explicit records of one env, as listed at the start
RECURSIVE AutoremoveTargets(_, _, _, _, _, _)
AutoremoveTargets(m, env_name, targets, i, force, results) ==
    IF i > Len(targets) THEN [m |-> m, exc |-> "", msg |-> "", results |-> results]
    ELSE LET meta == targets[i].v
             line(r) == [env |-> env_name, package |-> meta.package, err |-> r.msg]
         IN  BindIf(
                BindIf(run(m, meta.package, "uninstall", env_name, meta.version,
                           meta.source, force, TRUE, <<>>, MaxDepth),
                       LAMBDA r : r.exc \notin {"", "YPMSError"},
                       LAMBDA r : [m |-> r.m, exc |-> r.exc, msg |-> r.msg,
                                   results |-> results]),
                LAMBDA r : "results" \notin DOMAIN r,
                LAMBDA r : AutoremoveTargets(r.m, env_name, targets, i + 1, force,
                              IF r.exc = "YPMSError" /\ r.msg = "not defined"
                              THEN results ELSE Append(results, line(r))))

RECURSIVE AutoremoveEnvs(_, _, _, _, _)
AutoremoveEnvs(m, by_env, e, force, results) ==
    IF e > Len(by_env) THEN [m |-> m, exc |-> "", msg |-> "", results |-> results]
    ELSE Bind(AutoremoveTargets(m, by_env[e].k,
                  SelectSeq(by_env[e].v, LAMBDA x : ~x.v.explicit), 1, force, results),
              LAMBDA r : AutoremoveEnvs(r.m, by_env, e + 1, force, r.results))

autoremove(m, env, force) ==
    AutoremoveEnvs(m, list_installed(m.db, env), 1, force, <<>>)

\* ---- upgrade -------------------------------------------------------------
\* the loop over the records of one env, as listed at the start
RECURSIVE UpgradeTargets(_, _, _, _, _, _)
UpgradeTargets(m, env_name, pkgs, i, force, results) ==
    IF i > Len(pkgs) THEN [m |-> m, exc |-> "", msg |-> "", results |-> results]
    ELSE LET meta == pkgs[i].v
             line(r) == [env |-> env_name, package |-> meta.package, err |-> r.msg]
         IN  BindIf(
                BindIf(run(m, meta.package, "update", env_name, meta.version,
                           meta.source, force, TRUE, <<>>, MaxDepth),
                       LAMBDA r : r.exc \notin {"", "YPMSError"},
                       LAMBDA r : [m |-> r.m, exc |-> r.exc, msg |-> r.msg,
                                   results |-> results]),
                LAMBDA r : "results" \notin DOMAIN r,
                LAMBDA r : UpgradeTargets(r.m, env_name, pkgs, i + 1, force,
                              IF r.exc = "YPMSError" /\ r.msg = "not defined"
                              THEN results ELSE Append(results, line(r))))

RECURSIVE UpgradeEnvs(_, _, _, _, _)
UpgradeEnvs(m, by_env, e, force, results) ==
    IF e > Len(by_env) THEN [m |-> m, exc |-> "", msg |-> "", results |-> results]
    ELSE Bind(UpgradeTargets(m, by_env[e].k, by_env[e].v, 1, force, results),
              LAMBDA r : UpgradeEnvs(r.m, by_env, e + 1, force, r.results))

\* upgrade() begins with refresh_sources(), which empties the JSON cache and
\* fetches the configuration and the index of every configured source again;
\* every configured URL is served here, so it changes nothing of the manager
upgrade(m, env, force) ==
    UpgradeEnvs(m, list_installed(m.db, env), 1, force, <<>>)

\* ---- the state machine ---------------------------------------------------
Envs == {"default"}

Req(ref, version, source) == [ref |-> ref, version |-> version, source |-> source]

\* the package requests the calls are made with
InstallRequests ==
    {Req("a/lib", "", ""), Req("a/lib", "latest", ""), Req("a/app", "", ""),
     Req("a/suite", "", ""),
     Req("a/base", "", ""), Req("c/chain", "", ""), Req("c/chain", "latest", ""),
     Req("k/kit", "", ""), Req("k/cleaner", "", ""), Req("f/bad", "", ""),
     Req("f/stuck", "", ""), Req("x/app", "", "alt"), Req("a/lib", "", "alt"),
     Req("a/lib", "", "yopr"), Req("n/none", "", ""), Req("r/ext", "", ""),
     Req("p/pack", "", ""), Req("u/set", "", ""), Req("y/ping", "", ""),
     Req("d/a", "", "")}

RunRequests ==
    {Req("a/lib", "", ""), Req("a/lib", "latest", "yopr"), Req("a/lib", "", "alt"),
     Req("a/app", "", ""), Req("a/base", "", ""), Req("c/chain", "", ""),
     Req("k/kit", "", ""), Req("k/cleaner", "", ""), Req("f/stuck", "", ""),
     Req("x/app", "", ""), Req("f/bad", "", "")}

\* how a call is made: the flags and what standard input holds
Modes ==
    {[assume_yes |-> TRUE, force |-> FALSE, stdin |-> <<>>],
     [assume_yes |-> TRUE, force |-> TRUE, stdin |-> <<>>],
     [assume_yes |-> FALSE, force |-> FALSE, stdin |-> <<>>],
     [assume_yes |-> FALSE, force |-> FALSE, stdin |-> <<"n">>],
     [assume_yes |-> FALSE, force |-> TRUE, stdin |-> <<"y", "y">>],
     [assume_yes |-> FALSE, force |-> TRUE, stdin |-> <<"y", "n">>]}

RunModes ==
    {[assume_yes |-> FALSE, force |-> FALSE, stdin |-> <<>>],
     [assume_yes |-> TRUE, force |-> TRUE, stdin |-> <<>>],
     [assume_yes |-> FALSE, force |-> TRUE, stdin |-> <<"y">>],
     [assume_yes |-> FALSE, force |-> TRUE, stdin |-> <<"n">>]}

SourceAdds == {[name |-> "alt", url |-> UrlAlt], [name |-> "yopr", url |-> UrlAlt]}
SourceRemoves == {"alt", "yopr"}

NoCall ==
    [op |-> "none", ref |-> "", guide |-> "", env |-> "", version |-> "", source |-> "",
     explicit |-> FALSE, assume_yes |-> FALSE, force |-> FALSE, stdin |-> <<>>,
     pre |-> <<>>, pre_sources |-> <<>>, exc |-> "", msg |-> "", val |-> "",
     log |-> <<>>, plan |-> <<>>, notes |-> <<>>, planned |-> FALSE, results |-> <<>>,
     file |-> <<>>]

\* the manager of a process: sources_map is what _load_sources read from
\* sources.json, file is what sources.json holds
\* procs are the processes its shell steps launched
Mgr ==
    [db |-> installed, sources_map |-> sources_map, file |-> sources_map, log |-> <<>>,
     procs |-> <<>>, source_cache |-> <<>>]

Called(op, force) ==
    /\ last.op = "none"
    /\ nops < MaxOps
    /\ nops' = nops + 1
    /\ force_used' = (force_used \/ force)
    /\ probe' = probe

\* the call returned or raised r: the manager's files and the outcome
Took(r, call) ==
    /\ installed' = r.m.db
    /\ sources_map' = r.m.sources_map
    /\ last' = [call EXCEPT
           !.pre = installed, !.pre_sources = sources_map,
           !.exc = r.exc, !.msg = r.msg, !.log = r.m.log, !.file = r.m.file,
           !.val = IF "val" \in DOMAIN r THEN r.val ELSE "",
           !.plan = IF "plan" \in DOMAIN r THEN r.plan ELSE <<>>,
           !.notes = IF "notes" \in DOMAIN r THEN r.notes ELSE <<>>,
           !.planned = IF "planned" \in DOMAIN r THEN r.planned ELSE FALSE,
           !.results = IF "results" \in DOMAIN r THEN r.results ELSE <<>>]

Init ==
    /\ installed = <<>>
    /\ sources_map = DEFAULT_SOURCES
    /\ last = NoCall
    /\ nops = 0
    /\ force_used = FALSE
    /\ probe = <<>>

Install(rq, env, explicit, md) ==
    /\ Called("install", md.force)
    /\ Took(install(Mgr, rq.ref, env, rq.version, rq.source, explicit,
                    md.assume_yes, md.force, md.stdin),
            [NoCall EXCEPT
                !.op = "install", !.ref = rq.ref, !.env = env,
                !.version = rq.version, !.source = rq.source, !.explicit = explicit,
                !.assume_yes = md.assume_yes, !.force = md.force, !.stdin = md.stdin])

Run(rq, guide_name, env, md) ==
    /\ Called("run", md.force)
    /\ Took(run(Mgr, rq.ref, guide_name, env, rq.version, rq.source, md.force,
                md.assume_yes, md.stdin, MaxDepth),
            [NoCall EXCEPT
                !.op = "run", !.ref = rq.ref, !.guide = guide_name, !.env = env,
                !.version = rq.version, !.source = rq.source,
                !.assume_yes = md.assume_yes, !.force = md.force, !.stdin = md.stdin])

Autoremove(env, force) ==
    /\ Called("autoremove", force)
    /\ Took(autoremove(Mgr, env, force),
            [NoCall EXCEPT !.op = "autoremove", !.env = env, !.force = force])

Upgrade(env, force) ==
    /\ Called("upgrade", force)
    /\ Took(upgrade(Mgr, env, force),
            [NoCall EXCEPT !.op = "upgrade", !.env = env, !.force = force])

AddSource(name, url) ==
    /\ Called("add_source", FALSE)
    /\ sources_map' = add_source(Mgr, name, url).sources_map
    /\ installed' = installed
    /\ last' = [NoCall EXCEPT !.op = "add_source", !.source = name,
                              !.pre = installed, !.pre_sources = sources_map]

RemoveSource(name) ==
    /\ Called("remove_source", FALSE)
    /\ sources_map' = remove_source(Mgr, name).sources_map
    /\ installed' = installed
    /\ last' = [NoCall EXCEPT !.op = "remove_source", !.source = name,
                              !.pre = installed, !.pre_sources = sources_map]

\* the caller has taken the outcome of the last call
Return ==
    /\ last.op # "none"
    /\ last' = NoCall
    /\ UNCHANGED <<installed, sources_map, nops, force_used, probe>>

Next ==
    \/ \E rq \in InstallRequests, env \in Envs, explicit \in BOOLEAN, md \in Modes :
          Install(rq, env, explicit, md)
    \/ \E rq \in RunRequests, env \in Envs, md \in RunModes :
          Run(rq, "uninstall", env, md)
    \/ \E env \in Envs \cup {""}, force \in BOOLEAN : Autoremove(env, force)
    \/ \E env \in Envs \cup {""}, force \in BOOLEAN : Upgrade(env, force)
    \/ \E a \in SourceAdds : AddSource(a.name, a.url)
    \/ \E name \in SourceRemoves : RemoveSource(name)
    \/ Return

Spec == Init /\ [][Next]_vars

\* no alias value is empty, and none is an alias key that leads elsewhere
NoChainedAlias(pkg_info) ==
    \A i \in 1..Len(pkg_info.alias) :
        /\ pkg_info.alias[i].v # ""
        /\ DictGet(pkg_info.alias, pkg_info.alias[i].v, pkg_info.alias[i].v)
               = pkg_info.alias[i].v

\* ---- what a call was about ----------------------------------------------
\* the key the last call addressed: the source passed by the caller, else the
\* one run() reads from the ledger or the one install() selects
CallKey ==
    IF last.op = "run"
    THEN LET hit == FirstByPackage(EnvPkgs(last.pre, last.env), last.ref, 1) IN
         <<IF last.source # "" THEN last.source
           ELSE IF hit = 0 THEN "yopr"
           ELSE EnvPkgs(last.pre, last.env)[hit].v.source, last.ref>>
    ELSE <<_get_source(last.pre_sources, last.source).name, last.ref>>

\* the package info document of a key, <<>> when it cannot be loaded
InfoOf(smap, key) ==
    LET s == _get_source(smap, key[1]) IN
    IF s.exc # "" THEN <<>>
    ELSE LET pi == fetch_package_info(s.url, key[2]) IN
         IF pi.exc # "" THEN <<>> ELSE pi.info

\* the concrete tag the last call's version resolves to, "" when unknown
CallResolved ==
    IF InfoOf(last.pre_sources, CallKey) = <<>> THEN ""
    ELSE resolve_release_tag(InfoOf(last.pre_sources, CallKey), last.version)

\* the state the manager was in when the last call was made
MgrBefore ==
    [db |-> last.pre, sources_map |-> last.pre_sources, file |-> last.pre_sources,
     log |-> <<>>, procs |-> <<>>, source_cache |-> <<>>]

\* journal entries of the last call
Events(t) == {i \in 1..Len(last.log) : last.log[i].t = t}

\* keys of the records of env whose release names key with a concrete
\* version other than new_version (an omitted source is the record's own)
PinnedDependents(smap, db, env, key, new_version) ==
    {EnvPkgs(db, env)[n].k : n \in
        {i \in 1..Len(EnvPkgs(db, env)) :
            LET meta == EnvPkgs(db, env)[i].v
                info == InfoOf(smap, <<meta.source, meta.package>>)
                ri == IF info = <<>> THEN [exc |-> "YPMSError"]
                      ELSE fetch_release_info(info, meta.version)
            IN  /\ EnvPkgs(db, env)[i].k # key
                /\ ri.exc = ""
                /\ \E j \in 1..Len(ri.rel.depends) :
                      LET dp == _parse_dep(ri.rel.depends[j]) IN
                      /\ (IF dp.source # "" THEN dp.source ELSE meta.source) = key[1]
                      /\ dp.package = key[2]
                      /\ Blocks(dp.version, new_version)}}

\* the last call was confirmed by the user wherever it asked
Confirmed == Events("aborted") = {}

\* ---- install marks the root explicit ------------------------------------
\* C1: whenever install(ref, env, explicit=true) returns the env directory
\* without raising (a plan the user declined returns nothing and is not
\* counted), the ledger holds a record for ref in env with explicit=true, and
\* every record the call created for another package has explicit=false.
C1_ExplicitRoot ==
    (/\ last.op = "install"
     /\ last.explicit
     /\ last.exc = ""
     /\ last.val = EnvDir(last.env)) =>
        /\ RecordOf(installed, last.env, CallKey) # <<>>
        /\ RecordOf(installed, last.env, CallKey).explicit
        /\ \A i \in 1..Len(EnvPkgs(installed, last.env)) :
              LET e == EnvPkgs(installed, last.env)[i] IN
              (e.k # CallKey /\ ~DictHas(EnvPkgs(last.pre, last.env), e.k))
                  => ~e.v.explicit

\* ---- uninstall removes the record ---------------------------------------
\* C2 as stated: whenever run(ref, "uninstall", env) returns without raising,
\* the ledger has no record under source:ref in env.
C2_UninstallRemoves ==
    (last.op = "run" /\ last.guide = "uninstall" /\ last.exc = "") =>
        RecordOf(installed, last.env, CallKey) = <<>>

\* C2 amended: whenever run(ref, "uninstall", env) returns without raising and
\* the user did not decline the confirmation of a forced uninstall, the ledger
\* has no record under source:ref in env.
C2_UninstallRemovesConfirmed ==
    (last.op = "run" /\ last.guide = "uninstall" /\ last.exc = "" /\ Confirmed) =>
        RecordOf(installed, last.env, CallKey) = <<>>

\* an installed package was uninstalled: its record was there and is gone
C2_Witness ==
    /\ last.op = "run"
    /\ last.guide = "uninstall"
    /\ last.exc = ""
    /\ RecordOf(last.pre, last.env, CallKey) # <<>>
    /\ RecordOf(installed, last.env, CallKey) = <<>>
    /\ Events("step") # {}

\* ---- dependents block an uninstall --------------------------------------
\* the last call was run(P, "uninstall") on an installed P on which some
\* record of the env declared a dependency
UninstallWithDependents ==
    /\ last.op = "run"
    /\ last.guide = "uninstall"
    /\ RecordOf(last.pre, last.env, CallKey) # <<>>
    /\ DeclaringRecords(last.pre_sources, last.pre, last.env, CallKey) # {}

\* the refusal: a dependency error listing the dependents, no step of P's
\* uninstall guide, the ledger as it was
RefusedForDependents ==
    /\ last.exc = "YPMSError"
    /\ last.msg = "uninstall blocked by dependents"
    /\ \E i \in Events("blocked") :
          /\ last.log[i].key = CallKey
          /\ DeclaringRecords(last.pre_sources, last.pre, last.env, CallKey)
                 \subseteq last.log[i].who
    /\ \A i \in Events("step") :
          ~(last.log[i].key = CallKey /\ last.log[i].guide = "uninstall")
    /\ installed = last.pre

\* P's uninstall guide ran to its end
UninstallGuideCompleted ==
    /\ last.exc = ""
    /\ \E i \in Events("step") :
          last.log[i].key = CallKey /\ last.log[i].guide = "uninstall"

\* the release run() resolves for P can be loaded and has an uninstall guide,
\* and the dependents of P can be looked up
UninstallGuideDefined ==
    LET info == InfoOf(last.pre_sources, CallKey)
        ri == IF info = <<>> THEN [exc |-> "YPMSError"]
              ELSE fetch_release_info(info, CallResolved)
    IN  /\ ri.exc = ""
        /\ "uninstall" \in DOMAIN ri.rel.guides
        /\ _find_dependents(MgrBefore, last.env, CallKey[1], CallKey[2]).exc = ""

\* C3 as stated: if some record in env declares a dependency on P, then
\* run(P, "uninstall", env) with force=false fails with a dependency error
\* that lists the dependent, executes no step of P's uninstall guide and
\* leaves the ledger unchanged; with force=true (the warning confirmed or
\* assume_yes) the uninstall guide runs and P's record is removed.
C3_DependentsBlock ==
    UninstallWithDependents =>
        /\ ~last.force => RefusedForDependents
        /\ (last.force /\ Confirmed) =>
              /\ UninstallGuideCompleted
              /\ RecordOf(installed, last.env, CallKey) = <<>>

\* C3 amended: if P is installed, the release run() resolves for P defines an
\* uninstall guide and the dependents can be looked up, and some record in
\* env declares a dependency on P, then run(P, "uninstall", env) with
\* force=false fails with a dependency error that lists the dependent,
\* executes no step of P's uninstall guide and leaves the ledger unchanged;
\* with force=true (the warning confirmed or assume_yes) the uninstall guide
\* is started and, when the call returns without raising, P's record is
\* removed.
C3_DependentsBlockGuided ==
    (UninstallWithDependents /\ UninstallGuideDefined) =>
        /\ ~last.force => RefusedForDependents
        /\ (last.force /\ Confirmed) =>
              /\ \E i \in Events("warning") : last.log[i].key = CallKey
              /\ last.exc = "" =>
                    /\ UninstallGuideCompleted
                    /\ RecordOf(installed, last.env, CallKey) = <<>>

\* an uninstall without force was refused because of a dependent
C3_Witness ==
    /\ UninstallWithDependents
    /\ UninstallGuideDefined
    /\ ~last.force
    /\ RefusedForDependents

\* ---- no record goes while another depends on it -------------------------
\* C4: in every sequence of calls in which force is never set, no ledger
\* record is deleted while, at the moment of deletion, another record of the
\* same env declares a dependency on it.
C4_NoDependedOnDeleted ==
    ~force_used => \A i \in Events("delete") : last.log[i].who = {}

\* ---- a pinned dependent blocks an update --------------------------------
\* the last call was install(P, version=v2) without force, returned with the
\* env directory, on a P installed at another version and pinned by an
\* installed dependent to a concrete version other than v2
BlockedUpdateCase ==
    /\ last.op = "install"
    /\ ~last.force
    /\ last.exc = ""
    /\ last.val = EnvDir(last.env)
    /\ CallResolved # ""
    /\ RecordOf(last.pre, last.env, CallKey) # <<>>
    /\ RecordOf(last.pre, last.env, CallKey).version # CallResolved
    /\ PinnedDependents(last.pre_sources, last.pre, last.env, CallKey, CallResolved) # {}

\* C5: if P is installed in env and an installed dependent D pins P to a
\* concrete version v1, then install(P, version=v2) with v2 # v1 and
\* force=false reports a blocker naming D, does not run P's update guide and
\* returns with the ledger exactly as it was before the call.
C5_PinnedBlocksUpdate ==
    BlockedUpdateCase =>
        /\ \E i \in Events("incompatible") :
              /\ last.log[i].key = CallKey
              /\ PinnedDependents(last.pre_sources, last.pre, last.env, CallKey,
                                  CallResolved) \subseteq last.log[i].who
        /\ \A i \in Events("step") :
              ~(last.log[i].key = CallKey /\ last.log[i].guide = "update")
        /\ installed = last.pre

\* ---- the ledger changes only after a guide completed --------------------
\* C6: the ledger record of a package changes only after its guide completed
\* successfully: every write and every deletion of a record follows a guide
\* that returned; when a step of P's install guide fails no record for P is
\* written and an existing one is unchanged; when a step of P's uninstall
\* guide fails P's record remains.
C6_LedgerAfterGuide ==
    /\ \A i \in Events("write") \cup Events("delete") : last.log[i].done
    /\ \A i \in Events("failed") : last.log[i].done
    /\ (/\ last.op \in {"install", "run"}
        /\ last.exc # ""
        /\ \E i \in Events("failed") : last.log[i].key = CallKey) =>
            RecordOf(installed, last.env, CallKey) = RecordOf(last.pre, last.env, CallKey)

\* the install guide of f/bad failed at its second step, after its first step
\* had installed a/base: a/base is recorded, f/bad is not
C6_Witness ==
    /\ last.op = "install"
    /\ last.exc = "CalledProcessError"
    /\ \E i \in Events("failed") :
          last.log[i].key = CallKey /\ last.log[i].guide = "install"
    /\ \E i \in Events("write") : last.log[i].key # CallKey
    /\ RecordOf(installed, last.env, CallKey) = <<>>

\* ---- dependents are those whose release names the target ----------------
DependentsProbes == {"a/lib", "a/base", "k/kit"}

\* keys of the records of env whose release lists key as a dependency, an
\* omitted source being the record's own
DeclaringAll(smap, db, env, key) ==
    {EnvPkgs(db, env)[i].k : i \in
        {n \in 1..Len(EnvPkgs(db, env)) : key \in DeclaredDeps(smap, EnvPkgs(db, env)[n].v)}}

\* C7: for every env, target source S and target ref B, _find_dependents(env,
\* S, B) has an entry for installed package A if and only if the release of
\* A at its recorded version lists a dependency equal to (S, B) once an
\* omitted source is filled with A's own source.
C7_DependentsIffDeclared ==
    \A env \in Envs, S \in {"yopr", "alt"}, B \in DependentsProbes :
        LET fd == _find_dependents(Mgr, env, S, B) IN
        fd.exc = "" =>
            DependentKeys(fd.res) = DeclaringAll(sources_map, installed, env, <<S, B>>)

\* ---- one record per key, at a resolved version ---------------------------
\* the alias map of the package info of a record sends no alias to another
\* alias or to nothing
RecordUnchained(smap, meta) ==
    LET info == InfoOf(smap, <<meta.source, meta.package>>) IN
    info # <<>> /\ NoChainedAlias(info)

\* the version of a record is what resolve_release_tag makes of it
RecordResolved(smap, meta) ==
    LET info == InfoOf(smap, <<meta.source, meta.package>>) IN
    info # <<>> => resolve_release_tag(info, meta.version) = meta.version

OneRecordPerKey(pkgs) ==
    \A i, j \in 1..Len(pkgs) : pkgs[i].k = pkgs[j].k => i = j

\* C8 as stated: in every reachable ledger state each (env, key) has exactly
\* one record and its version is the resolved concrete tag:
\* resolve_release_tag(package info, record.version) = record.version.
C8_OneResolvedRecord ==
    \A env \in Envs :
        /\ OneRecordPerKey(EnvPkgs(installed, env))
        /\ \A i \in 1..Len(EnvPkgs(installed, env)) :
              RecordResolved(sources_map, EnvPkgs(installed, env)[i].v)

\* C8 amended: in every reachable ledger state each (env, key) has exactly
\* one record, and for every record of a package whose alias map sends no
\* alias to another alias or to the empty tag,
\* resolve_release_tag(package info, record.version) = record.version.
C8_OneResolvedRecordUnchained ==
    \A env \in Envs :
        /\ OneRecordPerKey(EnvPkgs(installed, env))
        /\ \A i \in 1..Len(EnvPkgs(installed, env)) :
              RecordUnchained(sources_map, EnvPkgs(installed, env)[i].v)
                  => RecordResolved(sources_map, EnvPkgs(installed, env)[i].v)

\* install(a/suite) wrote the record of a/lib twice (as a dependency of
\* a/app and as an operation of the plan): one record, at the default tag
C8_Witness ==
    /\ last.op = "install"
    /\ last.ref = "a/suite"
    /\ \E i \in Events("write") :
          last.log[i].key = <<"yopr", "a/lib">> /\ ~last.log[i].fresh
    /\ RecordOf(installed, "default", <<"yopr", "a/lib">>) # <<>>
    /\ RecordOf(installed, "default", <<"yopr", "a/lib">>).version = "v1"

\* the release the root of the last install call resolved to
RootRelease == LoadRelease(last.pre_sources, last.source, last.ref, last.version)

\* the source a dependency of the last call's root is taken from
RootDepSource(dp) == IF dp.source # "" THEN dp.source ELSE RootRelease.name

\* C12: the plan built for a root contains exactly one operation per entry of
\* the root's release.depends, in declared order and all before the root's
\* operation; a dependency's operation has kind update if its key source:ref
\* is in the ledger of env at planning time and kind install otherwise.
C12_DependencyOps ==
    (last.op = "install" /\ last.planned) =>
        LET deps == RootRelease.rel.depends IN
        /\ Len(last.plan) \in {Len(deps), Len(deps) + 1}
        /\ \A j \in 1..Len(deps) :
              /\ last.plan[j].package_ref = deps[j].package
              /\ last.plan[j].source = RootDepSource(deps[j])
              /\ last.plan[j].kind =
                    IF DictHas(EnvPkgs(last.pre, last.env),
                               <<RootDepSource(deps[j]), deps[j].package>>)
                    THEN "update" ELSE "install"
        /\ Len(last.plan) = Len(deps) + 1 =>
              /\ last.plan[Len(last.plan)].kind \in {"target", "update"}
              /\ last.plan[Len(last.plan)].package_ref = last.ref
              /\ last.plan[Len(last.plan)].source = RootRelease.name

\* a plan of an install operation, an update operation and the root's, the
\* second dependency being in the ledger and the first not
C12_Witness ==
    /\ last.op = "install"
    /\ last.planned
    /\ Len(last.plan) = 3
    /\ last.plan[1].kind = "install"
    /\ last.plan[2].kind = "update"
    /\ last.plan[3].kind = "target"
    /\ DictHas(EnvPkgs(last.pre, last.env), <<last.plan[2].source, last.plan[2].package_ref>>)

\* the operations of the last plan after those of the dependencies
RootPlanned ==
    SubSeq(last.plan, Len(RootRelease.rel.depends) + 1, Len(last.plan))

\* C13: for the root of a plan, no operation is emitted when the ledger holds
\* the root at the same resolved version, an update operation when it holds
\* the root at a different version, and a target operation when the root is
\* not in the ledger; the root operation, when present, is the last one.
C13_RootOp ==
    (last.op = "install" /\ last.planned) =>
        LET key == <<RootRelease.name, last.ref>> IN
        IF ~DictHas(EnvPkgs(last.pre, last.env), key)
        THEN RootPlanned = <<Op("target", key[1], key[2], RootRelease.resolved, 0)>>
        ELSE IF RecordOf(last.pre, last.env, key).version = RootRelease.resolved
        THEN RootPlanned = <<>>
        ELSE RootPlanned = <<Op("update", key[1], key[2], RootRelease.resolved, 0)>>

\* the ledger held the root at another version and the plan ends with its
\* update, after the operation of a dependency
C13_Witness ==
    /\ last.op = "install"
    /\ last.planned
    /\ Len(last.plan) = 2
    /\ last.plan[2] = Op("update", RootRelease.name, last.ref, RootRelease.resolved, 0)
    /\ DictHas(EnvPkgs(last.pre, last.env), <<RootRelease.name, last.ref>>)
    /\ RecordOf(last.pre, last.env, <<RootRelease.name, last.ref>>).version
          # RootRelease.resolved

\* the dependencies of the last call's root whose install guide holds an
\* add-repo step for the source name
ProvidersOf(name) ==
    {i \in 1..Len(RootRelease.rel.depends) :
        LET dp == RootRelease.rel.depends[i]
            L == LoadRelease(last.pre_sources, RootDepSource(dp), dp.package, dp.version)
        IN  L.exc = "" /\ name \in _extract_add_repo_names(L.rel.guides)}

\* C14: when a dependency of the root names a source that is not in the
\* sources map but the install guide of one of the root's dependencies
\* contains an add-repo step for that source name, planning succeeds and the
\* operation of that dependency carries a footnote k whose note names the
\* provider package.
C14_ProviderFootnote ==
    (last.op = "install" /\ RootRelease.exc = "") =>
        \A j \in 1..Len(RootRelease.rel.depends) :
            LET src == RootDepSource(RootRelease.rel.depends[j]) IN
            (~DictHas(last.pre_sources, src) /\ ProvidersOf(src) # {}) =>
                /\ last.planned
                /\ last.plan[j].footnote \in 1..Len(last.notes)
                /\ \E i \in ProvidersOf(src) :
                      last.notes[last.plan[j].footnote][2]
                          = RootRelease.rel.depends[i].package

\* ---- blockers of an update ------------------------------------------------
\* the targets and new versions _check_update_compat is asked about, between
\* two calls of the manager
CompatProbes == {"a/lib", "a/base"}
CompatVersions == {"v1", "v2"}

\* the records of env whose release names the target, but never a version
Unversioned(smap, db, env, key) ==
    {EnvPkgs(db, env)[i].k : i \in
        {n \in 1..Len(EnvPkgs(db, env)) :
            LET L == LoadRecorded(smap, EnvPkgs(db, env)[n].v) IN
            /\ L.exc = ""
            /\ \E j \in 1..Len(L.rel.depends) : L.rel.depends[j].package = key[2]
            /\ \A j \in 1..Len(L.rel.depends) :
                  L.rel.depends[j].package = key[2] => L.rel.depends[j].version = ""}}

\* C15 as stated: _check_update_compat(env, S, P, new_version) returns a
\* blocker for a dependent if and only if that dependent's required_version
\* is not empty, is not "latest", is not "*" and differs from new_version; a
\* dependent whose dependency entry omits the version never blocks.
C15_BlockerIff ==
    \A env \in Envs, P \in CompatProbes, nv \in CompatVersions :
        last.op = "none" =>
        LET fd == _find_dependents(Mgr, env, "yopr", P)
            ic == _check_update_compat(Mgr, env, "yopr", P, nv)
        IN  fd.exc = "" =>
              /\ ic.exc = ""
              /\ ic.res = SelectSeq(fd.res, LAMBDA x :
                    /\ x.required_version \notin {"", "latest", "*"}
                    /\ x.required_version # nv)
              /\ DependentKeys(ic.res)
                    \cap Unversioned(sources_map, installed, env, <<"yopr", P>>) = {}

\* C15 amended: _check_update_compat(env, S, P, new_version) returns a
\* blocker for a dependent if and only if that dependent's required_version
\* is not empty, is not "latest" in any letter case, is not "*" and differs
\* from new_version; a dependent whose dependency entry omits the version
\* never blocks.
C15_BlockerIffAnyCase ==
    \A env \in Envs, P \in CompatProbes, nv \in CompatVersions :
        last.op = "none" =>
        LET fd == _find_dependents(Mgr, env, "yopr", P)
            ic == _check_update_compat(Mgr, env, "yopr", P, nv)
        IN  fd.exc = "" =>
              /\ ic.exc = ""
              /\ ic.res = SelectSeq(fd.res, LAMBDA x :
                    /\ x.required_version # ""
                    /\ lower(x.required_version) # "latest"
                    /\ x.required_version # "*"
                    /\ x.required_version # nv)
              /\ DependentKeys(ic.res)
                    \cap Unversioned(sources_map, installed, env, <<"yopr", P>>) = {}

\* a/base has dependents that ask for "*", "latest", "LATEST" and v1, and one
\* that names no version; only the one pinned to v1 blocks its update to v2
C15_Witness ==
    LET fd == _find_dependents(Mgr, "default", "yopr", "a/base")
        ic == _check_update_compat(Mgr, "default", "yopr", "a/base", "v2")
    IN  /\ last.op = "none"
        /\ fd.exc = ""
        /\ {fd.res[i].required_version : i \in 1..Len(fd.res)}
              = {"*", "latest", "LATEST", "v1", ""}
        /\ DependentKeys(ic.res) = {<<"yopr", "p/pin">>}

\* the records upgrade or autoremove goes through: those of the env asked
\* for, or of every env, as the ledger held them when the call began
InScope ==
    LET by_env == list_installed(last.pre, last.env)
        all == UNION {{<<by_env[e].k, by_env[e].v[i].v>> : i \in 1..Len(by_env[e].v)} :
                         e \in 1..Len(by_env)}
    IN  IF last.op = "autoremove" THEN {t \in all : ~t[2].explicit} ELSE all

\* the release of the record defines no guide of the kind the call runs
LacksGuide(meta) ==
    LET L == LoadRelease(last.pre_sources, meta.source, meta.package, meta.version)
    IN  L.exc = "" /\ (IF last.op = "upgrade" THEN "update" ELSE "uninstall")
                          \notin DOMAIN L.rel.guides

\* C22: upgrade and autoremove go through every record of their scope: the
\* call does not end with the failure of one record's guide, a record whose
\* release lacks the guide has no line in the result list, and the other
\* records have one line each, a result or an error.
C22_EveryEntryProcessed ==
    last.op \in {"upgrade", "autoremove"} =>
        /\ last.exc = ""
        /\ \A t \in InScope :
              Cardinality({n \in 1..Len(last.results) :
                  last.results[n].env = t[1] /\ last.results[n].package = t[2].package})
              = Cardinality({o \in InScope :
                  o[1] = t[1] /\ o[2].package = t[2].package /\ ~LacksGuide(o[2])})

\* the lines of the result list for a package of an env
LinesFor(env, package) ==
    {n \in 1..Len(last.results) :
        last.results[n].env = env /\ last.results[n].package = package}

\* the records of the env that autoremove was to remove
Removable(env, package) ==
    {t \in InScope : t[1] = env /\ t[2].package = package}

\* C23: autoremove runs the uninstall of every record of its scope that had
\* explicit=false when it began (one line of the result list each, unless
\* the release has no uninstall guide) and of no record with explicit=true;
\* a record whose uninstall succeeded is gone from the ledger, and one that
\* dependents blocked is still there and has an error line.
C23_AutoremoveScope ==
    last.op = "autoremove" =>
        /\ \A t \in InScope :
              Cardinality(LinesFor(t[1], t[2].package))
              = Cardinality({o \in Removable(t[1], t[2].package) : ~LacksGuide(o[2])})
        /\ \A n \in 1..Len(last.results) :
              Removable(last.results[n].env, last.results[n].package) # {}
        /\ \A t \in InScope :
              (\A n \in LinesFor(t[1], t[2].package) : last.results[n].err = "")
                 /\ LinesFor(t[1], t[2].package) # {}
              => ~is_installed(installed, t[1], t[2].source, t[2].package)
        /\ \A i \in 1..Len(last.log) :
              (last.log[i].t = "blocked" /\ ~last.force)
              => /\ DictHas(EnvPkgs(installed, last.log[i].env), last.log[i].key)
                 /\ \E n \in LinesFor(last.log[i].env, last.log[i].key[2]) :
                       last.results[n].err # ""

\* C24: run(ref, "uninstall", env, source) for a (source, ref) without a
\* record in the ledger of env returns without raising, dispatches no guide
\* step and leaves the ledger as it was.
C24_UninstallAbsentNoop ==
    (/\ last.op = "run" /\ last.guide = "uninstall"
     /\ ~DictHas(EnvPkgs(last.pre, last.env), CallKey))
    => /\ last.exc = ""
       /\ Events("step") = {}
       /\ installed = last.pre

\* C25: install(ref) comes to an end whatever cycles the packages form,
\* through release.depends or through install-package steps: the installer
\* never runs out of stack installing a package from within its own
\* installation.
C25_CircularInstallEnds ==
    last.op = "install" => last.exc # "RecursionError"

\* ---- the plan comes before the effects ------------------------------------
\* nothing of the manager's files changed and no guide step was started
Untouched ==
    /\ installed = last.pre
    /\ sources_map = last.pre_sources
    /\ last.file = last.pre_sources
    /\ Events("step") = {}
    /\ Events("write") \cup Events("delete") = {}

\* the user answered the plan's "Continue?" with something else than yes
PlanDeclined == \E i \in Events("aborted") : last.log[i].guide = ""

\* C34: install() builds the whole plan before any effect on the ledger or
\* the sources map: a call that ends while the plan is built, with an empty
\* plan or with the confirmation declined leaves both as they were and has
\* started no guide step.
C34_PlanBeforeEffects ==
    last.op = "install" =>
        /\ ~last.planned => Untouched
        /\ (last.planned /\ (last.plan = <<>> \/ PlanDeclined)) =>
              Untouched /\ last.exc = ""

\* a plan of several operations was shown over a ledger that held records
\* and the user declined it
C34_Witness ==
    /\ last.op = "install"
    /\ last.planned /\ Len(last.plan) > 1
    /\ PlanDeclined
    /\ last.pre # <<>>
    /\ installed = last.pre

\* ---- explicit records stay explicit --------------------------------------
\* the journal entries before position k that wrote or deleted the record of
\* the entry at k
Before_(k) ==
    {j \in 1..(k - 1) : /\ last.log[j].t \in {"write", "delete"}
                        /\ last.log[j].env = last.log[k].env
                        /\ last.log[j].key = last.log[k].key}

\* the record that the write at journal position k replaced had explicit=true
ReplacedExplicit(k) ==
    IF Before_(k) = {}
    THEN /\ DictHas(EnvPkgs(last.pre, last.log[k].env), last.log[k].key)
         /\ RecordOf(last.pre, last.log[k].env, last.log[k].key).explicit
    ELSE LET j == CHOOSE j \in Before_(k) : \A o \in Before_(k) : o <= j
         IN  last.log[j].t = "write" /\ last.log[j].explicit

\* C35: a record with explicit=true is not rewritten with explicit=false by
\* the install of another package, be it through an operation of the plan,
\* the dependency walk or an install-package step.
C35_ExplicitKept ==
    last.op = "install" =>
        /\ \A w \in Events("write") :
              (last.log[w].key # CallKey /\ ReplacedExplicit(w)) => last.log[w].explicit
        /\ \A e \in 1..Len(last.pre) : \A i \in 1..Len(last.pre[e].v) :
              (/\ last.pre[e].v[i].v.explicit
               /\ last.pre[e].v[i].k # CallKey
               /\ DictHas(EnvPkgs(installed, last.pre[e].k), last.pre[e].v[i].k)) =>
                  RecordOf(installed, last.pre[e].k, last.pre[e].v[i].k).explicit

\* a/base was recorded with explicit=true and p/pack, whose install guide
\* names a/base in an install-package step, was installed
C35_Witness ==
    /\ last.op = "install" /\ last.ref = "p/pack" /\ last.exc = ""
    /\ is_installed(last.pre, last.env, "yopr", "a/base")
    /\ RecordOf(last.pre, last.env, <<"yopr", "a/base">>).explicit
    /\ Events("step") # {}
    /\ RecordOf(installed, last.env, <<"yopr", "a/base">>).explicit

\* ---- what an update leaves in the ledger ---------------------------------
\* the update operations of the plan whose update guide was run
UpdatesRun ==
    {i \in 1..Len(last.plan) :
        /\ last.plan[i].kind = "update"
        /\ \E k \in Events("step") :
              /\ last.log[k].guide = "update"
              /\ last.log[k].key = <<last.plan[i].source, last.plan[i].package_ref>>}

\* C36: after install() has executed an update operation without error the
\* record of the package has the version of the operation, so that the same
\* request made again plans no operation for it.
C36_UpdateRecorded ==
    (last.op = "install" /\ last.exc = "") =>
        \A i \in UpdatesRun :
           RecordOf(installed, last.env,
                    <<last.plan[i].source, last.plan[i].package_ref>>).version
              = last.plan[i].version

\* ---- one install guide per package and request ---------------------------
\* the install guides of key that were executed to their end in the call
InstallGuideRuns(env, key) ==
    {w \in Events("write") : last.log[w].env = env /\ last.log[w].key = key}

\* C37: during one install() request the install guide of a package is
\* executed at most once; a package that an earlier operation of the plan
\* installed as a dependency is not installed again by a later operation.
C37_InstallGuideOnce ==
    last.op = "install" =>
        \A w \in Events("write") :
           Cardinality(InstallGuideRuns(last.log[w].env, last.log[w].key)) = 1

\* ---- the version of the plan and the version recorded --------------------
\* the last record the call wrote under the key of operation i of the plan
WritesOf(i) ==
    {w \in Events("write") :
        /\ last.log[w].env = last.env
        /\ last.log[w].key = <<last.plan[i].source, last.plan[i].package_ref>>}

\* C38: for every install or target operation of a plan that was executed,
\* the version recorded in the ledger is the version the plan showed for
\* the operation.
C38_PlanVersionRecorded ==
    (last.op = "install" /\ last.exc = "") =>
        \A i \in 1..Len(last.plan) :
           (last.plan[i].kind \in {"install", "target"} /\ WritesOf(i) # {}) =>
               last.log[CHOOSE w \in WritesOf(i) : \A o \in WritesOf(i) : o <= w].ver
                  = last.plan[i].version

\* ---- autoremove as a fixpoint ---------------------------------------------
\* the records of the scope of the call, as the ledger holds them now
Remaining ==
    LET by_env == list_installed(installed, last.env)
    IN  UNION {{<<by_env[e].k, by_env[e].v[i].v>> : i \in 1..Len(by_env[e].v)} :
                   e \in 1..Len(by_env)}

\* no guide step of the call failed: every line of the result list is a
\* result or the refusal to remove a record that had dependents
NoStepFailed ==
    /\ last.exc = ""
    /\ Events("failed") = {}
    /\ \A t \in InScope : ~LacksGuide(t[2])
    /\ \A n \in 1..Len(last.results) :
          last.results[n].err \in {"", "uninstall blocked by dependents"}

\* C39: after one autoremove pass in which no guide step failed, no record
\* with explicit=false that nothing depends on is left in the scope of the
\* call.
C39_AutoremoveFixpoint ==
    (last.op = "autoremove" /\ NoStepFailed) =>
        \A t \in Remaining :
           ~t[2].explicit =>
               LET fd == _find_dependents(Mgr, t[1], t[2].source, t[2].package)
               IN  fd.exc # "" \/ fd.res # <<>>

\* ---- resolve_release_tag on its own --------------------------------------
\* SpecResolve draws a package info document and a tag, resolves the tag and
\* then resolves the result again.
ProbeTags == {"", "v1", "v2", "latest", "stable"}
ProbeDefaults == {"", "v1", "latest"}
ProbeAliasValues == {"", "v1", "v2", "stable"}

ProbeAliases ==
    {<<>>}
    \cup {<<[k |-> "latest", v |-> x]>> : x \in ProbeAliasValues}
    \cup {<<[k |-> "stable", v |-> x]>> : x \in ProbeAliasValues}
    \cup {<<[k |-> "latest", v |-> x], [k |-> "stable", v |-> y]>> :
             x \in ProbeAliasValues, y \in ProbeAliasValues}

ProbeLists == UNION {[1..n -> {"v1", "v2"}] : n \in 0..MaxListLen}

ProbeInfos ==
    {PkgInfo(dflt, alias, lst, <<>>) :
        dflt \in ProbeDefaults, alias \in ProbeAliases, lst \in ProbeLists}

InitResolve ==
    /\ installed = <<>>
    /\ sources_map = DEFAULT_SOURCES
    /\ last = NoCall
    /\ nops = 0
    /\ force_used = FALSE
    /\ probe \in {[info |-> i, tag |-> t, stage |-> 0, r1 |-> "", r2 |-> ""] :
                     i \in ProbeInfos, t \in ProbeTags}

Resolve ==
    /\ probe.stage = 0
    /\ probe' = [probe EXCEPT !.stage = 1,
                              !.r1 = resolve_release_tag(probe.info, probe.tag)]
    /\ UNCHANGED <<installed, sources_map, last, nops, force_used>>

ResolveAgain ==
    /\ probe.stage = 1
    /\ probe' = [probe EXCEPT !.stage = 2,
                              !.r2 = resolve_release_tag(probe.info, probe.r1)]
    /\ UNCHANGED <<installed, sources_map, last, nops, force_used>>

NextResolve == Resolve \/ ResolveAgain

SpecResolve == InitResolve /\ [][NextResolve]_vars

\* C9 as claimed: resolving a resolved tag again gives the same tag, for
\* every package info document and every tag.
C9_Idempotent == probe.stage = 2 => probe.r2 = probe.r1

\* C9 amended: resolving a resolved tag again gives the same tag for every
\* package info document whose alias map has no empty value and no value that
\* is itself an alias key leading to another tag.
C9_IdempotentUnchained ==
    (probe.stage = 2 /\ NoChainedAlias(probe.info)) => probe.r2 = probe.r1

\* C9 witness: an alias was applied in a document without chained aliases
\* and the result was resolved again.
C9_Witness ==
    /\ probe.stage = 2
    /\ NoChainedAlias(probe.info)
    /\ probe.tag = "latest"
    /\ probe.r1 = "v2"
    /\ probe.r2 = "v2"

\* the four-step rule of the resolver, as the specification words it
FourStepRule(pkg_info, tag) ==
    LET chosen ==
            IF tag # "" THEN tag
            ELSE IF pkg_info.default # "" THEN pkg_info.default
            ELSE IF DictGet(pkg_info.alias, "latest", "") # ""
                 THEN DictGet(pkg_info.alias, "latest", "")
            ELSE IF Len(pkg_info.list) > 0 THEN pkg_info.list[1]
            ELSE ""
    IN  IF DictHas(pkg_info.alias, chosen) THEN DictGet(pkg_info.alias, chosen, "")
        ELSE chosen

MaxSteps == 2

ProbeSteps ==
    <<Shell("true"), Shell("false"), NoneStep, OtherStep,
      InstallPkg(<<Dep("", "a/base", "")>>), InstallPkg(<<Dep("", "w/win", "")>>),
      InstallPkg(<<Dep("", "a/app", ""), Dep("", "a/lib", "")>>),
      UninstallPkg(<<Dep("", "w/gone", "")>>), UninstallPkg(<<Dep("", "u/fail", "")>>),
      UninstallPkg(<<Dep("", "a/lib", ""), Dep("", "a/app", "")>>),
      AddRepo(<<[name |-> "alt", url |-> UrlAlt]>>),
      AddRepo(<<[name |-> "yopr", url |-> UrlAlt], [name |-> "zed", url |-> UrlAlt],
                [name |-> "zed", url |-> UrlMain]>>),
      RemoveRepo(<<"alt">>), RemoveRepo(<<"nope", "yopr", "zed">>),
      OnlyOs(Shell("true"), <<"linux">>), OnlyOs(Shell("true"), <<"Linux">>),
      OnlyOs(Shell("true"), <<"windows", "darwin">>), OnlyOs(Shell("false"), <<"windows">>),
      OnlyOs(Shell("true"), <<>>),
      OnlyArch(Shell("true"), <<"AMD64">>), OnlyArch(Shell("true"), <<"arm64">>),
      OnlyOn(Shell("true"), <<>>, <<"x86_64">>), OnlyOn(Shell("true"), <<>>, <<"arm64">>),
      OnlyOn(Shell("true"), <<"LINUX">>, <<"x64", "aarch64">>),
      OnlyOn(Shell("true"), <<"linux">>, <<"arm64">>),
      OnlyOn(InstallPkg(<<Dep("", "a/base", "")>>), <<"windows">>, <<"x86_64">>),
      OnlyOs(AddRepo(<<[name |-> "alt", url |-> UrlAlt]>>), <<"darwin">>),
      OnlyOs(OtherStep, <<"windows">>)>>

ProbeCtx == Ctx("p/probe", "yopr", "v1", "install")

\* the ledgers a guide is executed over
RECURSIVE ProbeLedger(_, _)
ProbeLedger(refs, i) ==
    IF i = 0 THEN <<>>
    ELSE _db_mark_installed(ProbeLedger(refs, i - 1), "default", "yopr", refs[i], "v1", TRUE)

ProbeLedgers ==
    {<<>>, ProbeLedger(<<"w/gone", "u/fail", "a/lib", "a/app">>, 4)}

InitGuide ==
    /\ installed \in ProbeLedgers
    /\ sources_map = DEFAULT_SOURCES
    /\ last = NoCall
    /\ nops = 0
    /\ force_used = FALSE
    /\ \E n \in 1..MaxSteps : \E pick \in [1..n -> 1..Len(ProbeSteps)] :
       \E force \in BOOLEAN :
          probe = [guide |-> [i \in 1..n |-> ProbeSteps[pick[i]]], stage |-> 0,
                   matches |-> <<>>, force |-> force]

MatchSteps ==
    /\ probe.stage = 0
    /\ probe' = [probe EXCEPT
           !.stage = 1,
           !.matches = [i \in 1..Len(probe.guide) |-> _when_matches(probe.guide[i].when)]]
    /\ UNCHANGED <<installed, sources_map, last, nops, force_used>>

ExecuteGuide ==
    /\ probe.stage = 1
    /\ probe' = [probe EXCEPT !.stage = 2]
    /\ Took(_execute_guide_steps(Mgr, probe.guide, 1, FALSE, "", ProbeCtx, "default",
                                 probe.force, MaxDepth),
            [NoCall EXCEPT !.op = "guide", !.env = "default"])
    /\ UNCHANGED <<nops, force_used>>

NextGuide == MatchSteps \/ ExecuteGuide

SpecGuide == InitGuide /\ [][NextGuide]_vars

\* positions of the guide's steps whose when matched the host
Matching == {i \in 1..Len(probe.guide) : probe.matches[i]}

\* positions of the guide's steps that were handed to their handler
Dispatched ==
    {last.log[k].idx : k \in {k \in 1..Len(last.log) :
        /\ last.log[k].t = "step"
        /\ last.log[k].key = <<ProbeCtx.SOURCE_NAME, ProbeCtx.PACKAGE_REF>>}}

PlatformMatchError == last.exc = "YPMSError" /\ last.msg = "No guide step matched"

NothingDone ==
    /\ last.log = <<>>
    /\ installed = last.pre
    /\ sources_map = last.pre_sources

\* C11 as stated: for any guide, if at least one step's when matches the host,
\* execution either completes with every such step executed or fails with an
\* error other than the platform-match error; if no step's when matches,
\* execution fails with the platform-match error, no step handler runs and
\* the ledger, the sources map and the environment are unchanged.
C11_PlatformMatch ==
    probe.stage = 2 =>
        /\ Matching # {} =>
              \/ last.exc = "" /\ Dispatched = Matching
              \/ last.exc # "" /\ ~PlatformMatchError
        /\ Matching = {} => PlatformMatchError /\ NothingDone

\* C11 amended: when a step's when matches, execution either completes with
\* every matching step executed, or fails at a matching step, all matching
\* steps before it having been executed and none after it; the error is then
\* that step's, and it is the platform-match error only if the step is an
\* install-package or uninstall-package step, whose nested guide raised it.
\* No step whose when does not match is executed.  When no step's when
\* matches, execution fails with the platform-match error and nothing is
\* done.
C11_PlatformMatchOwn ==
    probe.stage = 2 =>
        /\ Dispatched \subseteq Matching
        /\ Matching # {} /\ last.exc = "" => Dispatched = Matching
        /\ Matching # {} /\ last.exc # "" =>
              \E f \in Matching :
                 /\ Dispatched \cup {f} = {i \in Matching : i <= f}
                 /\ f \in Dispatched \/ probe.guide[f].type \notin KnownStepTypes
                 /\ PlatformMatchError =>
                       probe.guide[f].type \in {"install-package", "uninstall-package"}
        /\ Matching = {} => PlatformMatchError /\ NothingDone

\* a guide whose first step does not match the host and whose second does
\* was run to its end
C11_Witness ==
    /\ probe.stage = 2
    /\ last.exc = ""
    /\ Matching = {2}
    /\ Dispatched = {2}

\* journal positions of the steps of the guide that were dispatched
OwnSteps ==
    {k \in 1..Len(last.log) :
        /\ last.log[k].t = "step"
        /\ last.log[k].key = <<ProbeCtx.SOURCE_NAME, ProbeCtx.PACKAGE_REF>>}

\* the steps of the guide were dispatched in the order of their declaration
InDeclaredOrder == \A a, b \in OwnSteps : a < b => last.log[a].idx < last.log[b].idx

\* the journal entry f, of a guide that raised, ended the guide
Aborted(f) == last.exc # "" /\ \A k \in OwnSteps : k < f

\* the ledger of env default held key just before journal position k
HeldAt(k, key) ==
    LET ch == {j \in 1..(k - 1) : /\ last.log[j].t \in {"write", "delete"}
                                  /\ last.log[j].key = key}
    IN  IF ch = {} THEN DictHas(EnvPkgs(last.pre, "default"), key)
        ELSE last.log[CHOOSE j \in ch : \A o \in ch : o <= j].t = "write"

\* after a failure the ledger holds what the steps before it made of it:
\* every record written and not deleted since, none that was deleted and
\* not written since
EarlierEffectsKept ==
    last.exc # "" =>
        \A j \in Events("write") \cup Events("delete") :
           DictHas(EnvPkgs(installed, "default"), last.log[j].key)
              <=> HeldAt(Len(last.log) + 1, last.log[j].key)

NestedInstallSteps ==
    {k \in Events("step") : last.log[k].guide = "install"} \ OwnSteps

\* C27: an install-package step does not run the install guide of a package
\* that is in the ledger of the env when its entry is processed; a package
\* that is not is installed and recorded with explicit=false.
C27_InstallPackageStep ==
    probe.stage = 2 =>
        /\ \A k \in NestedInstallSteps : ~HeldAt(k, last.log[k].key)
        /\ \A w \in Events("write") : ~last.log[w].explicit
        /\ last.exc = "" =>
              \A k \in OwnSteps :
                 probe.guide[last.log[k].idx].type = "install-package" =>
                    \A e \in 1..Len(probe.guide[last.log[k].idx].content) :
                       is_installed(installed, "default", "yopr",
                                    probe.guide[last.log[k].idx].content[e].package)

\* the guide's first executed step is an uninstall-package step whose first
\* target is in the ledger
FirstTarget == probe.guide[last.log[1].idx].content[1].package

UninstallsFirst ==
    /\ probe.stage = 2
    /\ OwnSteps # {}
    /\ probe.guide[last.log[1].idx].type = "uninstall-package"
    /\ is_installed(last.pre, "default", "yopr", FirstTarget)

\* C28: an uninstall-package step fails at a target that is in the ledger
\* and has a dependent when force is false; when the target has no
\* dependent or force is true, the target's uninstall guide is run and,
\* unless the guide fails, the record of the target is removed.
C28_UninstallPackageStep ==
    UninstallsFirst =>
        IF /\ _find_dependents(MgrBefore, "default", "yopr", FirstTarget).res # <<>>
           /\ ~probe.force
        THEN /\ last.exc = "YPMSError" /\ last.msg = "uninstall blocked"
             /\ Len(last.log) = 1
             /\ installed = last.pre
        ELSE /\ \E k \in Events("step") \cup Events("failed") :
                   /\ last.log[k].guide = "uninstall"
                   /\ last.log[k].key = <<"yopr", FirstTarget>>
             /\ Events("failed") = {} =>
                   \E k \in Events("delete") : last.log[k].key = <<"yopr", FirstTarget>>

\* the (name, URL) pairs of a sources map
Pairs(smap) == {<<smap[i].k, smap[i].v>> : i \in 1..Len(smap)}

Names(pairs) == {p[1] : p \in pairs}

\* what an add-repo step is to add to the pairs: of the entries whose name
\* is absent, the first of each name
Added(pairs, entries) ==
    {<<entries[i].name, entries[i].url>> :
        i \in {i \in 1..Len(entries) :
                  /\ entries[i].name \notin Names(pairs)
                  /\ \A j \in 1..(i - 1) : entries[j].name # entries[i].name}}

\* the pairs after the steps from position i on that were executed
RECURSIVE AfterRepoSteps(_, _)
AfterRepoSteps(pairs, i) ==
    IF i > Len(probe.guide) THEN pairs
    ELSE IF i \notin Dispatched THEN AfterRepoSteps(pairs, i + 1)
    ELSE IF probe.guide[i].type = "add-repo"
    THEN AfterRepoSteps(pairs \cup Added(pairs, probe.guide[i].content), i + 1)
    ELSE IF probe.guide[i].type = "remove-repo"
    THEN AfterRepoSteps({p \in pairs :
                            \A j \in 1..Len(probe.guide[i].content) :
                               probe.guide[i].content[j] # p[1]}, i + 1)
    ELSE AfterRepoSteps(pairs, i + 1)

\* C29: an add-repo step adds exactly the entries whose name is absent from
\* the sources map and leaves the URL of every present name as it is; a
\* remove-repo step removes exactly the named sources that are present;
\* sources.json then holds what the sources map holds.
C29_RepoSteps ==
    probe.stage = 2 =>
        /\ Pairs(sources_map) = AfterRepoSteps(Pairs(last.pre_sources), 1)
        /\ Len(sources_map) = Cardinality(Names(Pairs(sources_map)))
        /\ last.file = sources_map

\* an add-repo step naming yopr, which was present, and zed, which was not,
\* was executed
C29_Witness ==
    /\ probe.stage = 2
    /\ \E i \in Dispatched :
          /\ probe.guide[i].type = "add-repo"
          /\ Len(probe.guide[i].content) = 3
    /\ DictGet(sources_map, "yopr", "") = UrlMain
    /\ DictGet(sources_map, "zed", "") = UrlAlt
    /\ last.file = sources_map

\* the host's architecture is in a when's arch list
ArchListed(when) ==
    \E k \in 1..Len(DictGet(when, "arch", <<>>)) :
        NormArch(lower(DictGet(when, "arch", <<>>)[k])) = _norm_arch

\* a when with every os and arch value in lower case
LowerWhen(when) ==
    [k \in 1..Len(when) |->
        [k |-> when[k].k, v |-> [j \in 1..Len(when[k].v) |-> lower(when[k].v[j])]]]

\* C20: a step without when matches every host; a when whose os list is empty
\* and whose arch list is present imposes no OS constraint, so the step
\* matches exactly when the host arch is in the arch list; os and arch values
\* are compared case-insensitively.
C20_WhenMatches ==
    probe.stage >= 1 =>
        \A i \in 1..Len(probe.guide) :
            LET when == probe.guide[i].when IN
            /\ Len(when) = 0 => probe.matches[i]
            /\ (/\ DictHas(when, "os")
                /\ Len(DictGet(when, "os", <<>>)) = 0
                /\ DictHas(when, "arch")) => (probe.matches[i] <=> ArchListed(when))
            /\ probe.matches[i] <=> _when_matches(LowerWhen(when))

\* ---- the sources map on its own --------------------------------------------
\* SpecSources draws a sources map, a name and a URL; it adds the name and
\* removes it again, or asks _get_source for the name or for the default.
MaxSources == 2

SourceNames == {"yopr", "alt", "zed", "Beta"}

ProbeMaps ==
    UNION {{f \in [1..n -> [k : SourceNames, v : {UrlMain, UrlAlt}]] :
               \A i \in 1..n, j \in 1..n : i # j => f[i].k # f[j].k} :
           n \in 0..MaxSources}

InitSources ==
    /\ installed = <<>>
    /\ sources_map \in ProbeMaps
    /\ last = NoCall
    /\ nops = 0
    /\ force_used = FALSE
    /\ probe \in {[before |-> sources_map, name |-> x, url |-> u, stage |-> "start",
                   got |-> [exc |-> "", msg |-> "", name |-> "", url |-> ""]] :
                     x \in SourceNames, u \in {UrlMain, UrlAlt}}

SourcesAdd ==
    /\ probe.stage = "start"
    /\ sources_map' = add_source(Mgr, probe.name, probe.url).sources_map
    /\ probe' = [probe EXCEPT !.stage = "added"]
    /\ UNCHANGED <<installed, last, nops, force_used>>

SourcesRemove ==
    /\ probe.stage = "added"
    /\ sources_map' = remove_source(Mgr, probe.name).sources_map
    /\ probe' = [probe EXCEPT !.stage = "removed"]
    /\ UNCHANGED <<installed, last, nops, force_used>>

GetSource(given) ==
    /\ probe.stage = "start"
    /\ probe' = [probe EXCEPT
           !.stage = IF given THEN "named" ELSE "default",
           !.got = _get_source(sources_map, IF given THEN probe.name ELSE "")]
    /\ UNCHANGED <<installed, sources_map, last, nops, force_used>>

NextSources == SourcesAdd \/ SourcesRemove \/ (\E given \in BOOLEAN : GetSource(given))

SpecSources == InitSources /\ [][NextSources]_vars

MaxTextLen == 4

Alphabet == {"a", "/", ":", "@", " "}

RECURSIVE Texts(_)
Texts(n) ==
    IF n = 0 THEN {""}
    ELSE Texts(n - 1) \cup {t \o c : t \in Texts(n - 1), c \in Alphabet}

ProbeSourceTexts == {"", "s", " s ", "s:t"}
ProbeVersionTexts == {"", "1", " 1 ", "1:2/3"}

\* the string form of a dependency on package at version from source
StringForm(source, package, version) ==
    (IF source = "" THEN "" ELSE source \o ":") \o package
        \o (IF version = "" THEN "" ELSE "@" \o version)

NoParse == [exc |-> "", source |-> "", package |-> "", version |-> ""]

InitText ==
    /\ installed = <<>>
    /\ sources_map = DEFAULT_SOURCES
    /\ last = NoCall
    /\ nops = 0
    /\ force_used = FALSE
    /\ probe \in {[source |-> src, package |-> pkg, version |-> ver, stage |-> 0,
                   split |-> [exc |-> "", msg |-> "", user |-> "", pkg |-> ""],
                   str |-> NoParse, obj |-> NoParse] :
                     src \in ProbeSourceTexts, pkg \in Texts(MaxTextLen),
                     ver \in ProbeVersionTexts}

SplitPkgRef ==
    /\ probe.stage = 0
    /\ probe' = [probe EXCEPT !.stage = 1, !.split = _split_pkg_ref(probe.package)]
    /\ UNCHANGED <<installed, sources_map, last, nops, force_used>>

ParseDepString ==
    /\ probe.stage = 1
    /\ probe' = [probe EXCEPT
           !.stage = 2,
           !.str = _parse_dep([text |->
                       StringForm(probe.source, probe.package, probe.version)])]
    /\ UNCHANGED <<installed, sources_map, last, nops, force_used>>

ParseDepObject ==
    /\ probe.stage = 2
    /\ probe' = [probe EXCEPT
           !.stage = 3,
           !.obj = _parse_dep([source |-> probe.source, package |-> probe.package,
                               version |-> probe.version])]
    /\ UNCHANGED <<installed, sources_map, last, nops, force_used>>

NextText == SplitPkgRef \/ ParseDepString \/ ParseDepObject

SpecText == InitText /\ [][NextText]_vars

\* the halves of a ref around its first '/'
UserHalf(ref) == Before(ref, "/")
PkgHalf(ref) == After(ref, "/")

\* s has a character that is not whitespace
Inked(s) == \E i \in 1..Len(s) : CharAt(s, i) \notin Whitespace

\* s begins or ends with whitespace
Padded(s) ==
    Len(s) > 0 /\ (CharAt(s, 1) \in Whitespace \/ CharAt(s, Len(s)) \in Whitespace)

\* C18 as stated: _split_pkg_ref rejects with a domain error every package
\* ref that has no '/', that has an empty half, or that has leading or
\* trailing whitespace around either half.
C18_RejectsMalformed ==
    (/\ probe.stage >= 1
     /\ \/ ~Contains(probe.package, "/")
        \/ UserHalf(probe.package) = ""
        \/ PkgHalf(probe.package) = ""
        \/ Padded(UserHalf(probe.package))
        \/ Padded(PkgHalf(probe.package)))
    => probe.split.exc = "YPMSError"

\* C18 amended: _split_pkg_ref rejects with a domain error exactly the package
\* refs that have no '/' or that have, on a side of the first '/', nothing
\* but whitespace; leading and trailing whitespace around a half that has
\* other characters is removed and the ref is accepted.
C18_RejectsBlankHalves ==
    probe.stage >= 1 =>
        IF /\ Contains(probe.package, "/")
           /\ Inked(UserHalf(probe.package))
           /\ Inked(PkgHalf(probe.package))
        THEN /\ probe.split.exc = ""
             /\ ~Padded(probe.split.user) /\ Inked(probe.split.user)
             /\ ~Padded(probe.split.pkg) /\ Inked(probe.split.pkg)
             /\ \E a \in 0..Len(UserHalf(probe.package)),
                   b \in 0..Len(PkgHalf(probe.package)) :
                   /\ ~Inked(SubSeq(UserHalf(probe.package), 1, a))
                   /\ ~Inked(SubSeq(PkgHalf(probe.package), 1, b))
                   /\ SubSeq(UserHalf(probe.package), a + 1,
                             a + Len(probe.split.user)) = probe.split.user
                   /\ SubSeq(PkgHalf(probe.package), b + 1,
                             b + Len(probe.split.pkg)) = probe.split.pkg
        ELSE probe.split.exc = "YPMSError"

\* a ref written with whitespace before its first half was accepted
C18_Witness ==
    /\ probe.stage >= 1
    /\ probe.package = " a/a"
    /\ probe.split.exc = ""
    /\ probe.split.user = "a"
    /\ probe.split.pkg = "a"

\* the text of the probe's string form, as _parse_dep strips it
ProbeBody == strip(StringForm(probe.source, probe.package, probe.version))

\* the text after the first ':' of the body contains '/'
PrefixRecognized ==
    Contains(ProbeBody, ":") /\ Contains(After(ProbeBody, ":"), "/")

\* what is parsed as PACKAGE[@VERSION]
ProbeRef == IF PrefixRecognized THEN After(ProbeBody, ":") ELSE ProbeBody

\* the first part of C19 and of its amendment: a SOURCE: prefix is
\* recognized exactly when the text after the first ':' contains '/';
\* otherwise the whole string is treated as a bare ref with no source
\* override
PrefixRule ==
    probe.stage >= 2 =>
        /\ probe.str.exc = ""
        /\ probe.str.source =
              IF PrefixRecognized THEN strip(Before(ProbeBody, ":")) ELSE ""
        /\ IF Contains(ProbeRef, "@")
           THEN /\ probe.str.package = strip(Before(ProbeRef, "@"))
                /\ probe.str.version = strip(After(ProbeRef, "@"))
           ELSE /\ probe.str.package = strip(ProbeRef)
                /\ probe.str.version = ""

MaxCalls == 2

\* ypms.repo.url of the configuration document at config_url
BaseUrl(config_url) ==
    IF config_url = UrlMain THEN "https://ypsh-dgc.github.io/YPMS/yopr"
    ELSE "https://alt.example"

_index_url(config_url) == BaseUrl(config_url) \o "/index.json"

_package_url(config_url, user_id, package_id) ==
    BaseUrl(config_url) \o "/packages/" \o user_id \o "/" \o package_id \o ".json"

CacheRefs == {"a/lib", " a/lib", "lib"}
CacheSources == {"", "alt", "nope"}

PackageUrls ==
    {_package_url(c, "a", "lib") : c \in {UrlMain, UrlAlt}}

ServedUrls ==
    {UrlMain, UrlAlt} \cup {_index_url(c) : c \in {UrlMain, UrlAlt}} \cup PackageUrls

\* answers of the server: a document, a 2xx status other than 200, an HTTP
\* error (or no connection), a body that is not JSON
Answers == {"200", "204", "404", "not-json"}

\* the server while a call runs: one answer for the configuration
\* documents, one for the indexes, one for the package documents
Server(config, index, package) ==
    [u \in ServedUrls |->
        IF u \in PackageUrls THEN package
        ELSE IF u \in {UrlMain, UrlAlt} THEN config ELSE index]

Servers ==
    {Server(c, i, p) : c \in {"200", "404"}, i \in {"200", "404"}, p \in Answers}

Fetched(h, exc, msg) == [h |-> h, exc |-> exc, msg |-> msg]

\* a fetch that files the body in the cache before decoding it
_http_get_json_filed(h, url, force_refresh) ==
    IF ~force_refresh /\ url \in h.cache THEN Fetched(h, "", "")
    ELSE With([h EXCEPT !.gets = Append(@, url)], LAMBDA h1 :
        IF h.server[url] = "404" THEN Fetched(h1, "YPMSError", "Failed to GET")
        ELSE IF h.server[url] # "200" /\ h.server[url] # "not-json"
        THEN Fetched(h1, "YPMSError", "HTTP status")
        ELSE IF h.server[url] = "not-json"
        THEN Fetched([h1 EXCEPT !.cache = @ \cup {url}], "YPMSError", "Invalid JSON")
        ELSE Fetched([h1 EXCEPT !.cache = @ \cup {url}], "", ""))

\* _http_get_json with use_cache=True, as every caller passes it; h.gets
\* lists the requests sent
_http_get_json(h, url, force_refresh) ==
    IF ~force_refresh /\ url \in h.cache THEN Fetched(h, "", "")
    ELSE With([h EXCEPT !.gets = Append(@, url)], LAMBDA h1 :
        IF h.server[url] = "404" THEN Fetched(h1, "YPMSError", "Failed to GET")
        ELSE IF h.server[url] # "200" /\ h.server[url] # "not-json"
        THEN Fetched(h1, "YPMSError", "HTTP status")
        ELSE IF h.server[url] = "not-json"
        THEN Fetched(h1, "YPMSError", "Invalid JSON")
        ELSE Fetched([h1 EXCEPT !.cache = @ \cup {url}], "", ""))

_clear_all_cache(h) == [h EXCEPT !.cache = {}]

\* YPMSSource(source_name, config_url, force_refresh=...), kept in
\* _source_cache when it is built
YPMSSource(h, source_name, config_url, force_refresh) ==
    Bind(_http_get_json(h, config_url, force_refresh), LAMBDA r :
        Fetched([r.h EXCEPT !.source_cache = @ \cup {source_name}], "", ""))

\* _get_source with the resolvers this process has built; s is the name and
\* URL that sources_map gives
CachedSource(h, s, force_refresh) ==
    IF s.exc # "" THEN Fetched(h, s.exc, s.msg)
    ELSE IF ~force_refresh /\ s.name \in h.source_cache THEN Fetched(h, "", "")
    ELSE YPMSSource(h, s.name, s.url, force_refresh)

\* the URL of the document package_info reads, "" when it has none
InfoUrl(smap, package_ref, source_name) ==
    IF _split_pkg_ref(package_ref).exc # "" \/ _get_source(smap, source_name).exc # ""
    THEN ""
    ELSE _package_url(_get_source(smap, source_name).url,
                      _split_pkg_ref(package_ref).user, _split_pkg_ref(package_ref).pkg)

package_info(h, smap, package_ref, source_name) ==
    IF _split_pkg_ref(package_ref).exc # ""
    THEN Fetched(h, "YPMSError", _split_pkg_ref(package_ref).msg)
    ELSE Bind(CachedSource(h, _get_source(smap, source_name), FALSE), LAMBDA r :
        _http_get_json(r.h, InfoUrl(smap, package_ref, source_name), FALSE))

RECURSIVE RefreshLoop(_, _, _)
RefreshLoop(h, smap, i) ==
    IF i > Len(smap) THEN Fetched(h, "", "")
    ELSE Bind(CachedSource(h, _get_source(smap, smap[i].k), TRUE), LAMBDA r :
         Bind(_http_get_json(r.h, _index_url(smap[i].v), TRUE), LAMBDA q :
              RefreshLoop(q.h, smap, i + 1)))

refresh_sources(h, smap) ==
    RefreshLoop([_clear_all_cache(h) EXCEPT !.source_cache = {}], smap, 1)

\* the number of requests for url among gets
Requests(gets, url) == Cardinality({i \in 1..Len(gets) : gets[i] = url})

\* a call: the package URL it is for, whether the cache lacked it when the
\* call began, the requests sent for it, and the URLs that had no cache file
\* and that the server did not answer with a document
NoFetch ==
    [op |-> "none", url |-> "", exc |-> "", msg |-> "", missed |-> FALSE, sent |-> 0,
     answer |-> "", unserved |-> {}]

\* the process's view of the cache and the server when a call begins
Http(server) ==
    [cache |-> probe.cache, source_cache |-> probe.source_cache, gets |-> <<>>,
     server |-> server]

InitCache ==
    /\ installed = <<>>
    /\ sources_map \in {DEFAULT_SOURCES, Append(DEFAULT_SOURCES, [k |-> "alt", v |-> UrlAlt])}
    /\ last = NoCall
    /\ nops = 0
    /\ force_used = FALSE
    /\ \E files \in {{}, {UrlMain}, ServedUrls} :
          probe = [cache |-> files, source_cache |-> {}, prev |-> NoFetch,
                   cur |-> NoFetch]

\* the call returned or raised r
Fetching(r, op, url) ==
    /\ nops < MaxCalls
    /\ nops' = nops + 1
    /\ probe' = [probe EXCEPT
           !.cache = r.h.cache, !.source_cache = r.h.source_cache,
           !.prev = probe.cur,
           !.cur = [op |-> op, url |-> url, exc |-> r.exc, msg |-> r.msg,
                    missed |-> url \notin probe.cache,
                    sent |-> Requests(r.h.gets, url),
                    answer |-> IF url = "" THEN "" ELSE r.h.server[url],
                    unserved |-> {u \in ServedUrls \ probe.cache :
                                     r.h.server[u] # "200"}]]
    /\ UNCHANGED <<installed, sources_map, last, force_used>>

PackageInfoCall(package_ref, source_name, server) ==
    Fetching(package_info(Http(server), sources_map, package_ref, source_name),
             "package_info", InfoUrl(sources_map, package_ref, source_name))

RefreshCall(server) ==
    Fetching(refresh_sources(Http(server), sources_map), "refresh", "")

\* the next command runs in a new process: _source_cache starts empty
NewProcess ==
    /\ probe.source_cache # {}
    /\ probe' = [probe EXCEPT !.source_cache = {}]
    /\ UNCHANGED <<installed, sources_map, last, nops, force_used>>

NextCache ==
    \/ \E package_ref \in CacheRefs, source_name \in CacheSources, server \in Servers :
          PackageInfoCall(package_ref, source_name, server)
    \/ \E server \in Servers : RefreshCall(server)
    \/ NewProcess

SpecCache == InitCache /\ [][NextCache]_vars

MaxPieces == 2

Placeholders ==
    <<"{YPMS_ENV_DIR}", "{OS}", "{ARCH}", "{PACKAGE_REF}", "{SOURCE_NAME}", "{RELEASE_ID}">>

Pieces ==
    {Placeholders[i] : i \in 1..Len(Placeholders)} \cup {"x", "{", "}", "OS", " "}

RECURSIVE Templates(_)
Templates(n) ==
    IF n = 0 THEN {""}
    ELSE Templates(n - 1) \cup {t \o c : t \in Templates(n - 1), c \in Pieces}

SubstEnvDirs == {"/ypms/envs/default", "/ypms/envs/{OS}"}
SubstRefs == {"a/lib", "a/{RELEASE_ID}"}
SubstSources == {"yopr", "RELEASE_ID", "{ARCH}"}
SubstReleases == {"v1", "{OS}"}

\* the values of the placeholders, in the order of Placeholders
SubstValues(env_dir, ctx) ==
    <<env_dir, _norm_os, _norm_arch, ctx.PACKAGE_REF, ctx.SOURCE_NAME, ctx.RELEASE_ID>>

InitSubst ==
    /\ installed = <<>>
    /\ sources_map = DEFAULT_SOURCES
    /\ last = NoCall
    /\ nops = 0
    /\ force_used = FALSE
    /\ probe \in {[template |-> t, env_dir |-> e, ctx |-> Ctx(r, s, v, "install"),
                   stage |-> 0, out |-> ""] :
                     t \in Templates(MaxPieces), e \in SubstEnvDirs, r \in SubstRefs,
                     s \in SubstSources, v \in SubstReleases}

Subst ==
    /\ probe.stage = 0
    /\ probe' = [probe EXCEPT !.stage = 1,
                              !.out = _subst(probe.template, probe.env_dir, probe.ctx)]
    /\ UNCHANGED <<installed, sources_map, last, nops, force_used>>

NextSubst == Subst

SpecSubst == InitSubst /\ [][NextSubst]_vars

\* the placeholder that s begins with, 0 when it begins with none
PlaceholderAt(s) ==
    IF \E i \in 1..Len(Placeholders) : StartsWith(s, Placeholders[i])
    THEN CHOOSE i \in 1..Len(Placeholders) : StartsWith(s, Placeholders[i])
    ELSE 0

\* one pass over the template from left to right: a placeholder is replaced
\* by its value, any other character is copied, and the values are not read
\* again
RECURSIVE SinglePass(_, _)
SinglePass(s, values) ==
    IF s = "" THEN ""
    ELSE IF PlaceholderAt(s) # 0
    THEN values[PlaceholderAt(s)]
            \o SinglePass(SubSeq(s, Len(Placeholders[PlaceholderAt(s)]) + 1, Len(s)), values)
    ELSE CharAt(s, 1) \o SinglePass(Tail(s), values)

\* C30: substitution is a single pass over the template: every placeholder
\* of the template is replaced once and the text of a substituted value is
\* not scanned again, so that a value holding a placeholder is in the output
\* as it is.
C30_SinglePass ==
    probe.stage = 1 =>
        probe.out = SinglePass(probe.template, SubstValues(probe.env_dir, probe.ctx))

\* ---- _exec_step_shell on its own -----------------------------------------
\* SpecShell draws the content {cmd, check, shell} of a shell step and
\* executes the step for the package p/probe.
MaxCmds == 2

\* the commands a cmd list is made of
ShellItems ==
    {StrItem("true"), StrItem("false"), StrItem("echo hi"), StrItem("echo"), StrItem("hi"),
     ArgItem(<<"echo", "hi">>), ArgItem(<<"false">>)}

ShellCmds ==
    {[list |-> FALSE, items |-> <<StrItem(t)>>] : t \in {"true", "false", "echo hi"}}
    \cup UNION {{[list |-> TRUE, items |-> c] : c \in [1..n -> ShellItems]} :
                n \in 1..MaxCmds}

InitShell ==
    /\ installed = <<>>
    /\ sources_map = DEFAULT_SOURCES
    /\ last = NoCall
    /\ nops = 0
    /\ force_used = FALSE
    /\ probe \in {[content |-> [cmd |-> c, check |-> k, shell |-> sh], stage |-> 0,
                   exc |-> "", val |-> "", procs |-> <<>>] :
                     c \in ShellCmds, k \in BOOLEAN, sh \in {"absent", "true", "false"}}

ExecShell ==
    /\ probe.stage = 0
    /\ With(_exec_step_shell(Mgr, [type |-> "shell", content |-> probe.content,
                                   when |-> <<>>], ProbeCtx, "default"),
            LAMBDA r : probe' = [probe EXCEPT !.stage = 1, !.exc = r.exc, !.val = r.val,
                                              !.procs = r.m.procs])
    /\ UNCHANGED <<installed, sources_map, last, nops, force_used>>

NextShell == ExecShell

SpecShell == InitShell /\ [][NextShell]_vars

\* the commands of the step, and those that exit non-zero
ShellCmdsOf == probe.content.cmd.items
Failing == {i \in 1..Len(ShellCmdsOf) : ExitCode(ShellCmdsOf[i].words[1]) # 0}

\* C31: with check=true a command that exits non-zero aborts the step with
\* the domain error and the commands after it are not run; with check=false
\* the step completes, and a non-zero exit code of its last command is the
\* step result.
C31_ShellCheck ==
    probe.stage = 1 =>
        IF probe.content.check /\ Failing # {}
        THEN /\ probe.exc = "YPMSError"
             /\ \A f \in Failing : (\A g \in Failing : f <= g) => Len(probe.procs) = f
        ELSE /\ probe.exc = ""
             /\ Len(probe.procs) = Len(ShellCmdsOf)
             /\ Len(ShellCmdsOf) \in Failing => probe.val = "1"

MaxMarks == 2

LedgerEnvs == {"default", "dev"}
LedgerSources == {"yopr", "alt"}
LedgerRefs == {"a/lib", "a/app"}
LedgerVersions == {"v1", "v2"}

NoMark ==
    [op |-> "none", env |-> "", source |-> "", ref |-> "", version |-> "",
     explicit |-> FALSE, pre |-> <<>>, got |-> FALSE]

InitLedger ==
    /\ installed = <<>>
    /\ sources_map = DEFAULT_SOURCES
    /\ last = NoCall
    /\ nops = 0
    /\ force_used = FALSE
    /\ probe = NoMark

Marked(op, env, source, ref) ==
    /\ nops < MaxMarks
    /\ nops' = nops + 1
    /\ probe' = [NoMark EXCEPT !.op = op, !.env = env, !.source = source, !.ref = ref,
                               !.pre = installed,
                               !.got = is_installed(installed, env, source, ref)]
    /\ UNCHANGED <<sources_map, last, force_used>>

MarkInstalledCall(env, source, ref, version, explicit) ==
    /\ nops < MaxMarks
    /\ nops' = nops + 1
    /\ installed' = _db_mark_installed(installed, env, source, ref, version, explicit)
    /\ probe' = [NoMark EXCEPT !.op = "mark_installed", !.env = env, !.source = source,
                               !.ref = ref, !.version = version, !.explicit = explicit,
                               !.pre = installed]
    /\ UNCHANGED <<sources_map, last, force_used>>

MarkUninstalledCall(env, source, ref) ==
    /\ Marked("mark_uninstalled", env, source, ref)
    /\ installed' = _db_mark_uninstalled(installed, env, source, ref)

IsInstalledCall(env, source, ref) ==
    /\ Marked("is_installed", env, source, ref)
    /\ installed' = installed

NextLedger ==
    \E env \in LedgerEnvs, source \in LedgerSources, ref \in LedgerRefs :
        \/ \E version \in LedgerVersions, explicit \in BOOLEAN :
              MarkInstalledCall(env, source, ref, version, explicit)
        \/ MarkUninstalledCall(env, source, ref)
        \/ IsInstalledCall(env, source, ref)

SpecLedger == InitLedger /\ [][NextLedger]_vars

\* the records a ledger files under a key of an env, by their positions
EntriesOf(db, env, key) ==
    UNION {{<<i, j>> : j \in {j \in 1..Len(db[i].v) : db[i].v[j].k = key}} :
           i \in {i \in 1..Len(db) : db[i].k = env}}

\* the records of every other (env, key) are what they were
OthersKept ==
    \A env \in LedgerEnvs, source \in LedgerSources, ref \in LedgerRefs :
        <<env, source, ref>> # <<probe.env, probe.source, probe.ref>> =>
            /\ Cardinality(EntriesOf(installed, env, <<source, ref>>))
                  = Cardinality(EntriesOf(probe.pre, env, <<source, ref>>))
            /\ RecordOf(installed, env, <<source, ref>>)
                  = RecordOf(probe.pre, env, <<source, ref>>)

ProbeEntries(db) == EntriesOf(db, probe.env, <<probe.source, probe.ref>>)

\* C33: mark_installed changes only the entry (env, source:ref) and leaves
\* one record there, the one it was given; mark_uninstalled removes only
\* that entry and leaves a ledger without it as it is; is_installed is true
\* exactly when the entry exists.
C33_LedgerFrame ==
    /\ probe.op = "mark_installed" =>
          /\ OthersKept
          /\ Cardinality(ProbeEntries(installed)) = 1
          /\ RecordOf(installed, probe.env, <<probe.source, probe.ref>>)
                = Record(probe.source, probe.ref, probe.version, probe.explicit)
    /\ probe.op = "mark_uninstalled" =>
          /\ OthersKept
          /\ ProbeEntries(installed) = {}
          /\ ProbeEntries(probe.pre) = {} => installed = probe.pre
    /\ probe.op = "is_installed" =>
          /\ probe.got <=> ProbeEntries(probe.pre) # {}
          /\ installed = probe.pre

\* the record of an entry was replaced by one of another version
C33_Witness ==
    /\ probe.op = "mark_installed"
    /\ ProbeEntries(probe.pre) # {}
    /\ RecordOf(probe.pre, probe.env, <<probe.source, probe.ref>>).version # probe.version
    /\ Cardinality(ProbeEntries(installed)) = 1

\* ---- _source_cache on its own ----------------------------------------------
\* SpecResolvers runs add_source, remove_source, add-repo and remove-repo
\* steps, _get_source and refresh_sources on one manager.  probe holds
\* _source_cache, the number of resolvers built so far and the last call.  A
\* resolver is an object: two resolvers of the same name and URL differ by
\* the serial number they got when they were built.

\* calls per behaviour
MaxResolverOps == 3

ResolverNames == {"yopr", "alt"}
ResolverUrls == {UrlMain, UrlAlt}

NoResolver == [source_name |-> "", config_url |-> "", serial |-> 0]

\* _get_source with _source_cache; up holds the URLs whose configuration
\* document YPMSSource can load
_get_source_cached(m, source_name, force_refresh, up) ==
    With(_get_source(m.sources_map, source_name), LAMBDA s :
        IF s.msg = "No sources configured" THEN Raise(m, s.exc, s.msg)
        ELSE IF ~force_refresh /\ DictHas(m.source_cache, s.name)
        THEN Ok(m, DictGet(m.source_cache, s.name, NoResolver))
        ELSE IF s.exc # "" THEN Raise(m, s.exc, s.msg)
        ELSE IF s.url \notin up THEN Raise(m, "YPMSError", "Failed to GET")
        ELSE With([source_name |-> s.name, config_url |-> s.url,
                   serial |-> m.built + 1], LAMBDA src :
             Ok([m EXCEPT !.source_cache = DictSet(@, s.name, src),
                          !.built = @ + 1], src)))

\* the loop of refresh_sources over the items of sources_map; idx holds the
\* URLs of the configurations whose index can be fetched
RECURSIVE RefreshResolvers(_, _, _, _, _)
RefreshResolvers(m, items, i, up, idx) ==
    IF i > Len(items) THEN Ok(m, "")
    ELSE Bind(_get_source_cached(m, items[i].k, TRUE, up), LAMBDA r :
         IF items[i].v \notin idx THEN Raise(r.m, "YPMSError", "Failed to GET")
         ELSE RefreshResolvers(r.m, items, i + 1, up, idx))

\* refresh_sources as far as _source_cache goes
refresh_resolvers(m, up, idx) ==
    RefreshResolvers([m EXCEPT !.source_cache = <<>>], m.sources_map, 1, up, idx)

NoResolverCall ==
    [op |-> "none", name |-> "", force |-> FALSE, exc |-> "", val |-> NoResolver,
     had |-> <<>>]

\* the manager with the resolvers it holds
ResolverMgr ==
    [db |-> installed, sources_map |-> sources_map, file |-> sources_map,
     log |-> <<>>, procs |-> <<>>, source_cache |-> probe.source_cache,
     built |-> probe.built]

InitResolvers ==
    /\ installed = <<>>
    /\ sources_map \in {<<>>, DEFAULT_SOURCES}
    /\ last = NoCall
    /\ nops = 0
    /\ force_used = FALSE
    /\ probe = [source_cache |-> <<>>, built |-> 0, cur |-> NoResolverCall]

\* the call returned or raised r
Resolved(r, op, name, force) ==
    /\ nops < MaxResolverOps
    /\ nops' = nops + 1
    /\ sources_map' = r.m.sources_map
    /\ probe' = [source_cache |-> r.m.source_cache, built |-> r.m.built,
                 cur |-> [op |-> op, name |-> name, force |-> force, exc |-> r.exc,
                          val |-> IF op = "_get_source" /\ r.exc = "" THEN r.val
                                  ELSE NoResolver,
                          had |-> probe.source_cache]]
    /\ UNCHANGED <<installed, last, force_used>>

AddSourceCall(name, url) ==
    Resolved(Ok(add_source(ResolverMgr, name, url), ""), "add_source", name, FALSE)

RemoveSourceCall(name) ==
    Resolved(Ok(remove_source(ResolverMgr, name), ""), "remove_source", name, FALSE)

AddRepoStep(name, url) ==
    Resolved(_exec_step_add_repo(ResolverMgr,
                 AddRepo(<<[name |-> name, url |-> url]>>)), "add-repo", name, FALSE)

RemoveRepoStep(name) ==
    Resolved(_exec_step_remove_repo(ResolverMgr, RemoveRepo(<<name>>)),
             "remove-repo", name, FALSE)

GetSourceCall(source_name, force_refresh, up) ==
    Resolved(_get_source_cached(ResolverMgr, source_name, force_refresh, up),
             "_get_source", source_name, force_refresh)

RefreshResolversCall(up, idx) ==
    Resolved(refresh_resolvers(ResolverMgr, up, idx), "refresh_sources", "", TRUE)

NextResolvers ==
    \/ \E name \in ResolverNames, url \in ResolverUrls : AddSourceCall(name, url)
    \/ \E name \in ResolverNames : RemoveSourceCall(name)
    \/ \E name \in ResolverNames, url \in ResolverUrls : AddRepoStep(name, url)
    \/ \E name \in ResolverNames : RemoveRepoStep(name)
    \/ \E source_name \in ResolverNames \cup {""}, force_refresh \in BOOLEAN,
          up \in SUBSET ResolverUrls :
          GetSourceCall(source_name, force_refresh, up)
    \/ \E up \in SUBSET ResolverUrls, idx \in SUBSET ResolverUrls :
          RefreshResolversCall(up, idx)

SpecResolvers == InitResolvers /\ [][NextResolvers]_vars

\* the serial numbers of the resolvers a cache holds
Serials(cache) == {cache[i].v.serial : i \in 1..Len(cache)}

====
